---- MODULE Spec2Model ----
(***************************************************************************)
(* A model of the streamdown rendering engine: the text metrics and word   *)
(* wrapper (src/src/text.rs), the code line wrapper (src/src/code.rs), the *)
(* table layout engine (src/src/table.rs), the list state machine          *)
(* (src/src/list.rs) and the event dispatcher (src/src/renderer.rs).       *)
(*                                                                         *)
(* Strings are sequences of characters.  A character is a TLA+ string: a   *)
(* one-letter string stands for itself, and the named ones below stand for *)
(* the characters that cannot be written in a module.                      *)
(***************************************************************************)
EXTENDS Integers, Sequences, FiniteSets, TLC

VARIABLES
    renderer_width,    \* Renderer.width
    list_state,        \* Renderer.list_state: [stack, numbers, pending_reset]
    table_rows,        \* Renderer.table_rows
    in_blockquote,     \* Renderer.in_blockquote
    blockquote_depth,  \* Renderer.blockquote_depth
    current_language,  \* Renderer.current_language ("none" is None)
    code_buffer,       \* Renderer.code_buffer
    column,            \* Renderer.column
    writer,            \* the sink, as seen over the last render_event call
    finished,          \* into_writer has consumed the renderer
    events,            \* observer: the number of render_event calls so far
    last,              \* the last call: its event and what it returned
    prev_item,         \* observer: the list item before the last call
    run,               \* observer: the list items since the list was last empty
    call               \* a call of one of the pure functions and its result

vars == <<renderer_width, list_state, table_rows, in_blockquote, blockquote_depth,
          current_language, code_buffer, column, writer, finished, events,
          last, prev_item, run, call>>

-----------------------------------------------------------------------------
(* Bounds of the model. *)

MaxTextLen == 4        \* characters of a text given to text_wrap
MaxWidth == 3          \* width given to text_wrap
MaxPrefix == 2         \* columns of a prefix given to text_wrap
MaxCodeLen == 5        \* characters of a line given to code_wrap
MaxCodeWidth == 8      \* width given to code_wrap
MaxTableWidth == 22    \* max_width given to render_table
MaxEvents == 4         \* events given to one renderer

-----------------------------------------------------------------------------
(* Characters. *)

ESC == "ESC"            \* '\x1b'
TAB == "TAB"            \* '\t'
NL == "NL"              \* '\n'
WIDE == "W"             \* a character of display width 2 (3 bytes in UTF-8)
ACCENT == "e'"          \* a letter of display width 1 and 2 bytes in UTF-8

Min(a, b) == IF a <= b THEN a ELSE b
Max(a, b) == IF a >= b THEN a ELSE b
SatSub(a, b) == IF a >= b THEN a - b ELSE 0

RECURSIVE Repeat(_, _)
Repeat(s, n) == IF n <= 0 THEN <<>> ELSE s \o Repeat(s, n - 1)

RECURSIVE Concat(_)
Concat(ss) == IF ss = <<>> THEN <<>> ELSE Head(ss) \o Concat(Tail(ss))

RECURSIVE SumSeq(_)
SumSeq(s) == IF s = <<>> THEN 0 ELSE Head(s) + SumSeq(Tail(s))

\* UnicodeWidthChar::width(c).unwrap_or(0): control characters have none.
CharWidth(c) ==
    IF c = WIDE THEN 2
    ELSE IF c \in {ESC, TAB, NL} THEN 0
    ELSE 1

\* char::is_whitespace
IsWhitespace(c) == c \in {" ", TAB, NL}

\* char::len_utf8
ByteLen(c) == IF c = WIDE THEN 3 ELSE IF c = ACCENT THEN 2 ELSE 1

\* The characters that end an escape sequence for visible_length.
IsEscapeEnd(c) == c \in {"m", "K", "H", "J", "\\"}

-----------------------------------------------------------------------------
(* src/src/text.rs *)

\* The loop of visible_length from character i on.
RECURSIVE VisibleScan(_, _, _, _)
VisibleScan(s, i, len, in_escape) ==
    IF i > Len(s) THEN len
    ELSE IF in_escape
         THEN VisibleScan(s, i + 1, len, ~IsEscapeEnd(s[i]))
    ELSE IF s[i] = ESC
         THEN VisibleScan(s, i + 1, len, TRUE)
    ELSE VisibleScan(s, i + 1, len + CharWidth(s[i]), FALSE)

visible_length(s) == VisibleScan(s, 1, 0, FALSE)

\* The loop of split_text from character i on.
RECURSIVE SplitScan(_, _, _, _, _, _)
SplitScan(text, i, words, current, in_escape, escape_buf) ==
    IF i > Len(text)
    THEN LET cur == IF escape_buf # <<>> THEN current \o escape_buf ELSE current
         IN  IF cur # <<>> THEN Append(words, cur) ELSE words
    ELSE LET ch == text[i] IN
         IF in_escape
         THEN IF ch = "m"
              THEN SplitScan(text, i + 1, words,
                             current \o Append(escape_buf, ch), FALSE, <<>>)
              ELSE SplitScan(text, i + 1, words, current, TRUE,
                             Append(escape_buf, ch))
         ELSE IF ch = ESC
              THEN SplitScan(text, i + 1, words, current, TRUE,
                             Append(escape_buf, ch))
         ELSE IF IsWhitespace(ch)
              THEN IF current # <<>>
                   THEN SplitScan(text, i + 1, Append(words, current), <<>>,
                                  FALSE, escape_buf)
                   ELSE SplitScan(text, i + 1, words, current, FALSE,
                                  escape_buf)
         ELSE SplitScan(text, i + 1, words, Append(current, ch), FALSE,
                        escape_buf)

split_text(text) == SplitScan(text, 1, <<>>, <<>>, FALSE, <<>>)

\* The spans <<first, last>> of the characters of s that visible_length
\* passes over with in_escape set, the escape character that sets it
\* included; start is the position of that character, 0 outside a span.
RECURSIVE VisibleEscapeScan(_, _, _)
VisibleEscapeScan(s, i, start) ==
    IF i > Len(s) THEN (IF start > 0 THEN {<<start, Len(s)>>} ELSE {})
    ELSE IF start > 0
         THEN IF IsEscapeEnd(s[i])
              THEN {<<start, i>>} \cup VisibleEscapeScan(s, i + 1, 0)
              ELSE VisibleEscapeScan(s, i + 1, start)
    ELSE IF s[i] = ESC THEN VisibleEscapeScan(s, i + 1, i)
    ELSE VisibleEscapeScan(s, i + 1, 0)

VisibleEscapes(s) == VisibleEscapeScan(s, 1, 0)

\* The spans <<first, last>> of the characters of text that split_text
\* collects in escape_buf, from the escape character to the m that ends
\* the sequence or to the end of the text.
RECURSIVE SplitEscapeScan(_, _, _)
SplitEscapeScan(text, i, start) ==
    IF i > Len(text) THEN (IF start > 0 THEN {<<start, Len(text)>>} ELSE {})
    ELSE IF start > 0
         THEN IF text[i] = "m"
              THEN {<<start, i>>} \cup SplitEscapeScan(text, i + 1, 0)
              ELSE SplitEscapeScan(text, i + 1, start)
    ELSE IF text[i] = ESC THEN SplitEscapeScan(text, i + 1, i)
    ELSE SplitEscapeScan(text, i + 1, 0)

SplitEscapes(text) == SplitEscapeScan(text, 1, 0)

\* An iteration of the word loop that does not count the space before a
\* word that joins a line.
WrapWordNoSpace(st, word, width, first_prefix, next_prefix) ==
    LET word_len == visible_length(word)
        prefix_len == IF st.is_first_line THEN visible_length(first_prefix)
                      ELSE visible_length(next_prefix)
        available == SatSub(width, prefix_len)
    IN  IF st.current_len + word_len <= available
        THEN IF st.current_line # <<>>
             THEN [st EXCEPT !.current_line = (@ \o <<" ">>) \o word,
                             !.current_len = @ + 1 + word_len]
             ELSE [st EXCEPT !.current_line = @ \o word,
                             !.current_len = @ + word_len]
        ELSE IF st.current_line # <<>>
             THEN [lines |-> Append(st.lines,
                       (IF st.is_first_line THEN first_prefix ELSE next_prefix)
                           \o st.current_line),
                   current_line |-> word,
                   current_len |-> word_len,
                   is_first_line |-> FALSE]
             ELSE [st EXCEPT !.current_line = word, !.current_len = word_len]

\* One iteration of the word loop of text_wrap on the loop state
\* st = [lines, current_line, current_len, is_first_line].
WrapWord(st, word, width, first_prefix, next_prefix) ==
    LET word_len == visible_length(word)
        prefix_len == IF st.is_first_line THEN visible_length(first_prefix)
                      ELSE visible_length(next_prefix)
        available == SatSub(width, prefix_len)
        space_needed == IF st.current_line = <<>> THEN 0 ELSE 1
    IN  IF st.current_len + word_len + space_needed <= available
        THEN IF st.current_line # <<>>
             THEN [st EXCEPT !.current_line = (@ \o <<" ">>) \o word,
                             !.current_len = @ + 1 + word_len]
             ELSE [st EXCEPT !.current_line = @ \o word,
                             !.current_len = @ + word_len]
        ELSE IF st.current_line # <<>>
             THEN [lines |-> Append(st.lines,
                       (IF st.is_first_line THEN first_prefix ELSE next_prefix)
                           \o st.current_line),
                   current_line |-> word,
                   current_len |-> word_len,
                   is_first_line |-> FALSE]
             ELSE [st EXCEPT !.current_line = word, !.current_len = word_len]

RECURSIVE WrapLoop(_, _, _, _, _, _)
WrapLoop(st, words, i, width, first_prefix, next_prefix) ==
    IF i > Len(words) THEN st
    ELSE WrapLoop(WrapWord(st, words[i], width, first_prefix, next_prefix),
                  words, i + 1, width, first_prefix, next_prefix)

\* A text_wrap that begins every line with the first prefix.
text_wrap_one_prefix(text, width, first_prefix, next_prefix) ==
    IF width = 0 THEN <<>>
    ELSE LET words == split_text(text) IN
         IF words = <<>> THEN <<>>
         ELSE LET st == WrapLoop([lines |-> <<>>, current_line |-> <<>>,
                                  current_len |-> 0, is_first_line |-> TRUE],
                                 words, 1, width, first_prefix, first_prefix)
              IN  IF st.current_line # <<>>
                  THEN Append(st.lines, first_prefix \o st.current_line)
                  ELSE st.lines

\* A text_wrap that returns one empty line where it has no line to return.
text_wrap_one_empty_line(text, width, first_prefix, next_prefix) ==
    IF width = 0 THEN << <<>> >>
    ELSE LET words == split_text(text) IN
         IF words = <<>> THEN << <<>> >>
         ELSE LET st == WrapLoop([lines |-> <<>>, current_line |-> <<>>,
                                  current_len |-> 0, is_first_line |-> TRUE],
                                 words, 1, width, first_prefix, next_prefix)
              IN  IF st.current_line # <<>>
                  THEN Append(st.lines,
                           (IF st.is_first_line THEN first_prefix
                            ELSE next_prefix) \o st.current_line)
                  ELSE st.lines

\* A text_wrap that forgets the line in progress when the words run out.
text_wrap_drops_last(text, width, first_prefix, next_prefix) ==
    IF width = 0 THEN <<>>
    ELSE LET words == split_text(text) IN
         IF words = <<>> THEN <<>>
         ELSE WrapLoop([lines |-> <<>>, current_line |-> <<>>,
                        current_len |-> 0, is_first_line |-> TRUE],
                       words, 1, width, first_prefix, next_prefix).lines

\* text_wrap: the lines of the WrappedText it returns.
text_wrap(text, width, first_prefix, next_prefix) ==
    IF width = 0 THEN <<>>
    ELSE LET words == split_text(text) IN
         IF words = <<>> THEN <<>>
         ELSE LET st == WrapLoop([lines |-> <<>>, current_line |-> <<>>,
                                  current_len |-> 0, is_first_line |-> TRUE],
                                 words, 1, width, first_prefix, next_prefix)
              IN  IF st.current_line # <<>>
                  THEN Append(st.lines,
                           (IF st.is_first_line THEN first_prefix
                            ELSE next_prefix) \o st.current_line)
                  ELSE st.lines

-----------------------------------------------------------------------------
(* src/src/code.rs *)

\* str::len: the length in bytes.
RECURSIVE StrBytes(_)
StrBytes(s) == IF s = <<>> THEN 0 ELSE ByteLen(Head(s)) + StrBytes(Tail(s))

\* str::trim_start
RECURSIVE TrimStart(_)
TrimStart(s) ==
    IF s # <<>> /\ IsWhitespace(Head(s)) THEN TrimStart(Tail(s)) ELSE s

\* str::trim(..).is_empty(): only whitespace.
IsBlank(s) == \A i \in 1..Len(s) : IsWhitespace(s[i])

\* The chunking loop of code_wrap from character index start (0-based).
RECURSIVE CodeChunks(_, _, _, _, _)
CodeChunks(chars, start, effective_width, indent, lines) ==
    IF start >= Len(chars) THEN lines
    ELSE LET end == Min(start + effective_width, Len(chars))
             line_chars == SubSeq(chars, start + 1, end)
         IN  CodeChunks(chars, end, effective_width, indent,
                 Append(lines,
                        IF start = 0 THEN Repeat(<<" ">>, indent) \o line_chars
                        ELSE line_chars))

\* The loop that removes the trailing blank lines.
RECURSIVE DropBlankTail(_)
DropBlankTail(lines) ==
    IF lines # <<>> /\ IsBlank(lines[Len(lines)])
    THEN DropBlankTail(SubSeq(lines, 1, Len(lines) - 1))
    ELSE lines

\* An effective width that reserves the indent and not the 4 columns.
CodeWidthNoMarker(width, indent) == SatSub(width, indent)

\* effective_width of code_wrap
CodeEffectiveWidth(width, indent) == SatSub(SatSub(width, 4), indent)

\* code_wrap: [indent, lines]
code_wrap(text, width) ==
    IF text = <<>> THEN [indent |-> 0, lines |-> << <<>> >>]
    ELSE LET content == TrimStart(text)
             indent == StrBytes(text) - StrBytes(content)
             effective_width == CodeEffectiveWidth(width, indent)
         IN  IF content = <<>> THEN [indent |-> indent, lines |-> <<text>>]
             ELSE IF effective_width = 0 \/ StrBytes(content) <= effective_width
                  THEN [indent |-> indent, lines |-> <<text>>]
             ELSE LET lines == DropBlankTail(
                          CodeChunks(content, 0, effective_width, indent, <<>>))
                  IN  [indent |-> indent,
                       lines |-> IF lines = <<>> THEN <<text>> ELSE lines]

-----------------------------------------------------------------------------
(* The theme (crate::theme, not among the sources): a style maps a string  *)
(* to a style-start sequence, the string, and a full reset.                *)

RESET == <<ESC, "[", "0", "m">>

StyleStart(style) == <<ESC, "[", style, "m">>

Apply(style, s) == StyleStart(style) \o s \o RESET

\* The styles of the theme, each named by the parameter of its sequence.
TableBorder == "1"
TableHeaderStyle == "2"
BlockquoteBorder == "3"
ListNumber == "4"
BulletStyle == "5"
ThinkBorder == "6"
ThinkStyle == "7"
HrStyle == "8"
InlineStyle == "9"

-----------------------------------------------------------------------------
(* src/src/table.rs *)

\* UnicodeWidthStr::width: the sum of the characters' widths, escape
\* sequences not skipped.
RECURSIVE StrWidth(_)
StrWidth(s) == IF s = <<>> THEN 0 ELSE CharWidth(Head(s)) + StrWidth(Tail(s))

RECURSIVE MaxSeq(_)
MaxSeq(s) == IF s = <<>> THEN 0 ELSE Max(Head(s), MaxSeq(Tail(s)))

\* A loop of wrap that begins a continuation line with no style.
RECURSIVE CellWrapScanPlain(_, _, _, _, _, _, _, _)
CellWrapScanPlain(text, i, width, lines, line, w, esc, style) ==
    IF i > Len(text)
    THEN LET ls == IF line # <<>> THEN Append(lines, line) ELSE lines
         IN  IF ls = <<>> THEN << <<>> >> ELSE ls
    ELSE LET c == text[i] IN
         IF esc # <<>> \/ c = ESC
         THEN LET e == Append(esc, c) IN
              IF c = "m"
              THEN CellWrapScanPlain(text, i + 1, width, lines, line \o e, w,
                                     <<>>, IF e = RESET THEN <<>> ELSE e)
              ELSE CellWrapScanPlain(text, i + 1, width, lines, line, w, e,
                                     style)
         ELSE LET cw == CharWidth(c) IN
              IF w + cw > width /\ w > 0
              THEN CellWrapScanPlain(text, i + 1, width,
                                     Append(lines, line \o RESET),
                                     <<c>>, cw, esc, style)
              ELSE CellWrapScanPlain(text, i + 1, width, lines,
                                     Append(line, c), w + cw, esc, style)

\* The loop of wrap from character i on; style is <<>> for None.
RECURSIVE CellWrapScan(_, _, _, _, _, _, _, _)
CellWrapScan(text, i, width, lines, line, w, esc, style) ==
    IF i > Len(text)
    THEN LET ls == IF line # <<>> THEN Append(lines, line) ELSE lines
         IN  IF ls = <<>> THEN << <<>> >> ELSE ls
    ELSE LET c == text[i] IN
         IF esc # <<>> \/ c = ESC
         THEN LET e == Append(esc, c) IN
              IF c = "m"
              THEN CellWrapScan(text, i + 1, width, lines, line \o e, w, <<>>,
                                IF e = RESET THEN <<>> ELSE e)
              ELSE CellWrapScan(text, i + 1, width, lines, line, w, e, style)
         ELSE LET cw == CharWidth(c) IN
              IF w + cw > width /\ w > 0
              THEN CellWrapScan(text, i + 1, width,
                                Append(lines, line \o RESET),
                                Append(style, c), cw, esc, style)
              ELSE CellWrapScan(text, i + 1, width, lines, Append(line, c),
                                w + cw, esc, style)

\* wrap
wrap(text, width) ==
    IF width = 0 \/ visible_length(text) <= width THEN <<text>>
    ELSE CellWrapScan(text, 1, width, <<>>, <<>>, 0, <<>>, <<>>)

\* n of render_table: the greatest row length.
TableColumns(rows) == MaxSeq([r \in 1..Len(rows) |-> Len(rows[r])])

\* The widths w of render_table before shrinking.  A cell of the model is
\* the cell as format_line (streamdown_parser) returns it.
NaturalWidths(rows) ==
    [i \in 1..TableColumns(rows) |->
        MaxSeq([r \in 1..Len(rows) |->
                   IF i <= Len(rows[r]) THEN visible_length(rows[r][i])
                   ELSE 0])]

\* overhead of render_table
TableOverhead(rows, margin) == StrWidth(margin) + 1 + 3 * TableColumns(rows)

\* A shrink test that does not ask max_width to exceed the overhead.
TableShrinksUnguarded(rows, margin, max_width) ==
    TableOverhead(rows, margin) + SumSeq(NaturalWidths(rows)) > max_width

\* The shrink test of render_table.
TableShrinks(rows, margin, max_width) ==
    /\ TableOverhead(rows, margin) + SumSeq(NaturalWidths(rows)) > max_width
    /\ max_width > TableOverhead(rows, margin)

\* Widths shrunk in proportion, without the floor.
TableWidthsNoFloor(rows, margin, max_width) ==
    LET w == NaturalWidths(rows)
        total == SumSeq(w)
        avail == max_width - TableOverhead(rows, margin)
    IN  IF TableShrinks(rows, margin, max_width)
        THEN [i \in 1..Len(w) |-> (w[i] * avail) \div total]
        ELSE w

\* The final widths w of render_table.
TableWidths(rows, margin, max_width) ==
    LET w == NaturalWidths(rows)
        total == SumSeq(w)
        avail == max_width - TableOverhead(rows, margin)
    IN  IF TableShrinks(rows, margin, max_width)
        THEN [i \in 1..Len(w) |-> Max((w[i] * avail) \div total, 5)]
        ELSE w

\* The operations of render_table that panic when their operands are out of
\* range, once rows and columns are known to exist: the index w[i] of a cell
\* beyond the n columns, the subtraction max_width - overhead below zero and
\* the division by a total of zero in the shrink branch.
TablePanics(rows, margin, max_width) ==
    /\ rows # <<>>
    /\ TableColumns(rows) # 0
    /\ \/ \E r \in 1..Len(rows) : Len(rows[r]) > TableColumns(rows)
       \/ /\ TableShrinks(rows, margin, max_width)
          /\ \/ max_width < TableOverhead(rows, margin)
             \/ SumSeq(NaturalWidths(rows)) = 0

\* join
RECURSIVE Join(_, _)
Join(ss, sep) ==
    IF ss = <<>> THEN <<>>
    ELSE IF Len(ss) = 1 THEN ss[1]
    ELSE ss[1] \o sep \o Join(Tail(ss), sep)

\* An hline with as many dashes as the column is wide and no more.
TableHLineNarrow(w, margin, l, m, r) ==
    margin \o Apply(TableBorder, <<l>>)
        \o Join([i \in 1..Len(w) |->
                    Apply(TableBorder, Repeat(<<"box-h">>, w[i]))],
                Apply(TableBorder, <<m>>))
        \o Apply(TableBorder, <<r>>)

\* hline of render_table
TableHLine(w, margin, l, m, r) ==
    margin \o Apply(TableBorder, <<l>>)
        \o Join([i \in 1..Len(w) |->
                    Apply(TableBorder, Repeat(<<"box-h">>, w[i] + 2))],
                Apply(TableBorder, <<m>>))
        \o Apply(TableBorder, <<r>>)

\* Content lines that hold the cells the row has and none for the columns
\* it lacks.
TableRowLinesRagged(row, ri, w, margin) ==
    LET n == Min(Len(w), Len(row))
        wrapped == [i \in 1..n |-> wrap(row[i], w[i])]
        height == IF n = 0 THEN 1 ELSE MaxSeq([i \in 1..n |-> Len(wrapped[i])])
        cell(i, li) ==
            LET c == IF li <= Len(wrapped[i]) THEN wrapped[i][li] ELSE <<>>
                p == Repeat(<<" ">>, SatSub(w[i], visible_length(c)))
            IN  IF ri = 0 /\ li = 1 /\ c # <<>>
                THEN <<" ">> \o Apply(TableHeaderStyle, c) \o p \o <<" ">>
                ELSE <<" ">> \o c \o p \o <<" ">>
    IN  [li \in 1..height |->
            margin \o Apply(TableBorder, <<"box-v">>)
                \o Join([i \in 1..n |-> cell(i, li)],
                        Apply(TableBorder, <<"box-v">>))
                \o Apply(TableBorder, <<"box-v">>)]

\* The content lines of row ri (0-based) of render_table.
TableRowLines(row, ri, w, margin) ==
    LET n == Len(w)
        wrapped == [i \in 1..n |->
                       wrap(IF i <= Len(row) THEN row[i] ELSE <<>>, w[i])]
        height == MaxSeq([i \in 1..n |-> Len(wrapped[i])])
        cell(i, li) ==
            LET c == IF li <= Len(wrapped[i]) THEN wrapped[i][li] ELSE <<>>
                p == Repeat(<<" ">>, SatSub(w[i], visible_length(c)))
            IN  IF ri = 0 /\ li = 1 /\ c # <<>>
                THEN <<" ">> \o Apply(TableHeaderStyle, c) \o p \o <<" ">>
                ELSE <<" ">> \o c \o p \o <<" ">>
    IN  [li \in 1..height |->
            margin \o Apply(TableBorder, <<"box-v">>)
                \o Join([i \in 1..n |-> cell(i, li)],
                        Apply(TableBorder, <<"box-v">>))
                \o Apply(TableBorder, <<"box-v">>)]

\* A row loop that draws a separator behind the first row only.
RECURSIVE TableBodyHeaderRule(_, _, _, _)
TableBodyHeaderRule(rows, r, w, margin) ==
    IF r > Len(rows) THEN <<>>
    ELSE TableRowLines(rows[r], r - 1, w, margin)
         \o (IF r = 1 /\ Len(rows) > 1
             THEN <<TableHLine(w, margin, "box-ml", "box-mm", "box-mr")>>
             ELSE <<>>)
         \o TableBodyHeaderRule(rows, r + 1, w, margin)

\* A row loop that gives the row of a table of one row no header style.
RECURSIVE TableBodyPlainAlone(_, _, _, _)
TableBodyPlainAlone(rows, r, w, margin) ==
    IF r > Len(rows) THEN <<>>
    ELSE TableRowLines(rows[r], IF Len(rows) = 1 THEN 1 ELSE r - 1, w, margin)
         \o (IF r - 1 < Len(rows) - 1
             THEN <<TableHLine(w, margin, "box-ml", "box-mm", "box-mr")>>
             ELSE <<>>)
         \o TableBodyPlainAlone(rows, r + 1, w, margin)

\* The row loop of render_table from row r (1-based) on.
RECURSIVE TableBody(_, _, _, _)
TableBody(rows, r, w, margin) ==
    IF r > Len(rows) THEN <<>>
    ELSE TableRowLines(rows[r], r - 1, w, margin)
         \o (IF r - 1 < Len(rows) - 1
             THEN <<TableHLine(w, margin, "box-ml", "box-mm", "box-mr")>>
             ELSE <<>>)
         \o TableBody(rows, r + 1, w, margin)

\* render_table
render_table(rows, margin, max_width) ==
    IF rows = <<>> \/ TableColumns(rows) = 0 THEN <<>>
    ELSE LET w == TableWidths(rows, margin, max_width) IN
         <<TableHLine(w, margin, "box-tl", "box-tm", "box-tr")>>
         \o TableBody(rows, 1, w, margin)
         \o <<TableHLine(w, margin, "box-bl", "box-bm", "box-br")>>

-----------------------------------------------------------------------------
(* src/src/list.rs *)

\* BULLETS
BULLETS == <<"bullet-0", "bullet-1", "bullet-2", "bullet-3">>

\* format!("{}", num) of a usize
RECURSIVE Digits(_)
Digits(n) ==
    LET d == <<"0", "1", "2", "3", "4", "5", "6", "7", "8", "9">>[(n % 10) + 1]
    IN  IF n < 10 THEN <<d>> ELSE Append(Digits(n \div 10), d)

\* ListState::default
ListStateDefault == [stack |-> <<>>, numbers |-> <<>>, pending_reset |-> FALSE]

\* ListState::level
ListLevel(ls) == Len(ls.stack)

\* ListState::push
ListPush(ls, indent, ordered) ==
    [ls EXCEPT !.stack = Append(@, [indent |-> indent, ordered |-> ordered]),
               !.numbers = Append(@, 0)]

\* A pop that leaves the counters alone.
ListPopStackOnly(ls) ==
    [ls EXCEPT !.stack = IF @ = <<>> THEN @ ELSE SubSeq(@, 1, Len(@) - 1)]

\* ListState::pop
ListPop(ls) ==
    [ls EXCEPT !.stack = IF @ = <<>> THEN @ ELSE SubSeq(@, 1, Len(@) - 1),
               !.numbers = IF @ = <<>> THEN @ ELSE SubSeq(@, 1, Len(@) - 1)]

\* ListState::next_number: [ls, num]
ListNextNumber(ls) ==
    IF ls.numbers # <<>>
    THEN LET k == Len(ls.numbers) IN
         [ls |-> [ls EXCEPT !.numbers[k] = @ + 1], num |-> ls.numbers[k] + 1]
    ELSE [ls |-> ls, num |-> 1]

\* A pop loop that pops nothing.
ListPopDeeperNever(ls, indent) == ls

\* The pop loop of adjust_for_indent.
RECURSIVE ListPopDeeper(_, _)
ListPopDeeper(ls, indent) ==
    IF ls.stack # <<>> /\ ls.stack[Len(ls.stack)].indent > indent
    THEN ListPopDeeper(ListPop(ls), indent)
    ELSE ls

\* An adjust_for_indent that also replaces the top frame when the item is
\* at its indent and of the other kind.
ListAdjustReplacingKind(ls, indent, ordered) ==
    LET popped == ListPopDeeper(ls, indent)
        top == popped.stack[Len(popped.stack)]
    IN  IF popped.stack = <<>> \/ indent > top.indent
        THEN ListPush(popped, indent, ordered)
        ELSE IF top.ordered # ordered
             THEN ListPush(ListPop(popped), indent, ordered)
             ELSE popped

\* ListState::adjust_for_indent
ListAdjustForIndent(ls, indent, ordered) ==
    LET popped == ListPopDeeper(ls, indent)
        need_push == IF popped.stack # <<>>
                     THEN indent > popped.stack[Len(popped.stack)].indent
                     ELSE TRUE
    IN  IF need_push THEN ListPush(popped, indent, ordered) ELSE popped

\* A reset that clears the pending flag only.
ListResetPendingOnly(ls) == [ls EXCEPT !.pending_reset = FALSE]

\* ListState::reset
ListReset(ls) == [stack |-> <<>>, numbers |-> <<>>, pending_reset |-> FALSE]

\* ListState::mark_pending_reset
ListMarkPendingReset(ls) == [ls EXCEPT !.pending_reset = TRUE]

\* A resume_if_pending that begins the list anew when a ListEnd was seen.
ListResumeRestarts(ls) == IF ls.pending_reset THEN ListReset(ls) ELSE ls

\* ListState::resume_if_pending
ListResumeIfPending(ls) == [ls EXCEPT !.pending_reset = FALSE]

\* Lines whose continuation prefix is as wide as the left padding alone.
ListItemLinesUnderMarker(indent, ordered, marker, content, width, margin) ==
    LET indent_spaces == indent * 2
        colored_marker == IF ordered THEN Apply(ListNumber, marker)
                          ELSE Apply(BulletStyle, marker)
        first_prefix == margin \o Repeat(<<" ">>, indent_spaces)
                            \o colored_marker \o <<" ">>
        next_prefix == margin \o Repeat(<<" ">>, indent_spaces)
        wrapped == text_wrap(content, width, first_prefix, next_prefix)
    IN  IF wrapped = <<>> THEN <<first_prefix>> ELSE wrapped

\* The part of render_list_item after the marker is chosen: the lines made
\* of the marker.  A content of the model is the content as
\* render_inline_content returns it.
ListItemLines(indent, ordered, marker, content, width, margin) ==
    LET indent_spaces == indent * 2
        marker_width == visible_length(marker)
        content_indent == indent_spaces + marker_width + 1
        colored_marker == IF ordered THEN Apply(ListNumber, marker)
                          ELSE Apply(BulletStyle, marker)
        first_prefix == margin \o Repeat(<<" ">>, indent_spaces)
                            \o colored_marker \o <<" ">>
        next_prefix == margin \o Repeat(<<" ">>, content_indent)
        wrapped == text_wrap(content, width, first_prefix, next_prefix)
    IN  IF wrapped = <<>> THEN <<first_prefix>> ELSE wrapped

\* A render_list_item that numbers an ordered item by the ordinal of its
\* bullet.
render_list_item_ordinal(indent, bullet, content, width, margin, list) ==
    LET ordered == bullet.kind = "Ordered"
        adjusted == ListAdjustForIndent(ListResumeIfPending(list), indent,
                                        ordered)
        level == SatSub(ListLevel(adjusted), 1)
        marker == IF ordered THEN Append(Digits(bullet.n), ".")
                  ELSE IF bullet.kind = "PlusExpand" THEN <<"plus-box">>
                  ELSE <<BULLETS[(level % Len(BULLETS)) + 1]>>
    IN  [ls |-> IF ordered THEN ListNextNumber(adjusted).ls ELSE adjusted,
         marker |-> marker,
         lines |-> ListItemLines(indent, ordered, marker, content, width,
                                 margin)]

\* render_list_item: [ls, marker, lines].  A bullet is
\* [kind |-> "Ordered", n |-> ..], [kind |-> "PlusExpand"] or [kind |-> "Dash"].
render_list_item(indent, bullet, content, width, margin, list) ==
    LET ordered == bullet.kind = "Ordered"
        adjusted == ListAdjustForIndent(ListResumeIfPending(list), indent,
                                        ordered)
        level == SatSub(ListLevel(adjusted), 1)
        numbered == ListNextNumber(adjusted)
        marker == IF ordered THEN Append(Digits(numbered.num), ".")
                  ELSE IF bullet.kind = "PlusExpand" THEN <<"plus-box">>
                  ELSE <<BULLETS[(level % Len(BULLETS)) + 1]>>
    IN  [ls |-> IF ordered THEN numbered.ls ELSE adjusted,
         marker |-> marker,
         lines |-> ListItemLines(indent, ordered, marker, content, width,
                                 margin)]

-----------------------------------------------------------------------------
(* src/src/code.rs: CodeHighlighter *)

\* highlight_line: the line behind the colour sequence of its language (the
\* highlighting itself is syntect's).
highlight_line(line, language) ==
    IF line = <<>> THEN <<>> ELSE <<ESC, "[", language, "m">> \o line

\* render_code_line
render_code_line(line, language, margin, w) ==
    LET wrapped == code_wrap(line, w)
        cont == Repeat(<<" ", " ">>, (Min(wrapped.indent, 4) \div 2) + 1)
        result == [i \in 1..Len(wrapped.lines) |->
                      margin \o (IF i = 1 THEN <<>> ELSE cont)
                          \o highlight_line(wrapped.lines[i], language)
                          \o RESET]
    IN  IF result = <<>> THEN <<margin \o RESET>> ELSE result

-----------------------------------------------------------------------------
(* crate::heading (not among the sources) *)

\* render_heading: the styled content, wrapped behind the margin.
render_heading(level, content, w, margin) ==
    text_wrap(Apply("h", content), w, margin, margin)

-----------------------------------------------------------------------------
(* src/src/renderer.rs *)

\* The fields of the Renderer.
Self ==
    [width |-> renderer_width, list_state |-> list_state, table_rows |-> table_rows,
     in_blockquote |-> in_blockquote, blockquote_depth |-> blockquote_depth,
     current_language |-> current_language, code_buffer |-> code_buffer,
     column |-> column]

\* Renderer::with_theme
RendererNew(w) ==
    [width |-> w, list_state |-> ListStateDefault, table_rows |-> <<>>,
     in_blockquote |-> FALSE, blockquote_depth |-> 0,
     current_language |-> "none", code_buffer |-> <<>>, column |-> 0]

\* A left_margin that is empty inside a blockquote too.
left_margin_empty(s) == <<>>

\* Renderer::left_margin
left_margin(s) ==
    IF s.in_blockquote
    THEN Repeat(Apply(BlockquoteBorder, <<"box-v">>) \o <<" ">>,
                s.blockquote_depth)
    ELSE <<>>

\* A current_width that is the full width inside a blockquote too.
current_width_full(s) == s.width

\* Renderer::current_width
current_width(s) ==
    SatSub(s.width, IF s.in_blockquote THEN s.blockquote_depth * 3 ELSE 0)

\* A should_reset_list that does not exempt ListEnd.
should_reset_list_on_ListEnd(ev) ==
    ev.kind \notin {"ListItem", "EmptyLine", "Newline"}

\* Renderer::should_reset_list
should_reset_list(ev) ==
    ev.kind \notin {"ListItem", "ListEnd", "EmptyLine", "Newline"}

(***************************************************************************)
(* What a handler does is a plan: the state after the assignments that     *)
(* come before its first write, and then its writes in order, each with    *)
(* the state reached once that write has succeeded (and the assignments    *)
(* up to the next write have been made).                                   *)
(***************************************************************************)

\* Renderer::write
WriteStep(s, text) == [text |-> text, st |-> s]

\* Renderer::writeln
\* A writeln that writes the text without the line end.
WritelnStepNoLineEnd(s, text) ==
    [text |-> text, st |-> [s EXCEPT !.column = 0]]

WritelnStep(s, text) ==
    [text |-> Append(text, NL), st |-> [s EXCEPT !.column = 0]]

\* for line in lines { self.writeln(&line)?; }
WritelnAll(s, lines) == [i \in 1..Len(lines) |-> WritelnStep(s, lines[i])]

NoMarker == <<>>

Plan(s, steps) == [init |-> s, steps |-> steps, marker |-> NoMarker]

\* InlineStyler::link for Theme (src/src/inline.rs): the hyperlink escape
\* sequence around the styled label, a blank and the styled url in
\* parentheses, as one string.
link(text, url) ==
    <<ESC, "]", "8", ";", ";">> \o url \o <<ESC, "\\">>
        \o Apply(InlineStyle, text)
        \o <<ESC, "]", "8", ";", ";", ESC, "\\">>
        \o <<" ">> \o Apply(InlineStyle, <<"(">> \o url \o <<")">>)

\* InlineStyler::underline for Theme.
underline(text) == <<ESC, "[", "4", "m">> \o text \o <<ESC, "[", "2", "4", "m">>

\* The writes of the Link arm and of render_inline_element for a link.
LinkWrites(text, url) ==
    << <<ESC, "]", "8", ";", ";">>, url, <<ESC, "\\">>,
       Apply(InlineStyle, text), <<ESC, "]", "8", ";", ";", ESC, "\\">>,
       <<" ">>, Apply(InlineStyle, <<"(">> \o url \o <<")">>) >>

\* The write of an arm that writes one styled string.
StyledText(kind, text) ==
    CASE kind \in {"InlineCode", "Bold", "Italic", "Strikeout"} ->
            Apply(InlineStyle, text)
      [] kind = "BoldItalic" -> Apply(InlineStyle, Apply(InlineStyle, text))
      [] kind = "Underline" ->
            <<ESC, "[", "4", "m">> \o text \o <<ESC, "[", "2", "4", "m">>
      [] kind = "Image" -> <<"[", "image", " ">> \o text \o <<"]">>
      [] OTHER -> text

\* Renderer::render_inline_element: its writes.
InlineElementWrites(el) ==
    IF el.kind = "Link" THEN LinkWrites(el.text, el.url)
    ELSE <<StyledText(el.kind, el.text)>>

\* A flush_table that renders the buffered rows and keeps them.
FlushTableKeepRows(s) ==
    Plan(s, WritelnAll(s, render_table(s.table_rows, left_margin(s), s.width)))

\* flush_table
FlushTablePlan(s) ==
    IF s.table_rows = <<>> THEN Plan(s, <<>>)
    ELSE LET taken == [s EXCEPT !.table_rows = <<>>]
             lines == render_table(s.table_rows, left_margin(taken), s.width)
         IN  Plan(taken, WritelnAll(taken, lines))

\* The arms of the match of render_event, from the state s in which the
\* match is entered.
Arm(s, ev) ==
    CASE ev.kind = "Text" ->
            Plan(s, <<[text |-> ev.text,
                       st |-> [s EXCEPT !.column = @ + Len(ev.text)]]>>)
      [] ev.kind \in {"InlineCode", "Bold", "Italic", "BoldItalic",
                      "Underline", "Strikeout", "Image", "Footnote",
                      "Prompt"} ->
            Plan(s, <<WriteStep(s, StyledText(ev.kind, ev.text))>>)
      [] ev.kind = "Link" ->
            Plan(s, [i \in 1..7 |-> WriteStep(s, LinkWrites(ev.text, ev.url)[i])])
      [] ev.kind = "InlineElements" ->
            LET ws == Concat([i \in 1..Len(ev.elements) |->
                                 InlineElementWrites(ev.elements[i])])
            IN  Plan(s, [i \in 1..Len(ws) |-> WriteStep(s, ws[i])])
      [] ev.kind = "Heading" ->
            Plan(s, WritelnAll(s, render_heading(ev.level, ev.content,
                                   current_width(s), left_margin(s))))
      [] ev.kind = "CodeBlockStart" ->
            Plan([s EXCEPT !.current_language = ev.language,
                           !.code_buffer = <<>>], <<>>)
      [] ev.kind = "CodeBlockLine" ->
            LET t == [s EXCEPT !.code_buffer =
                         (IF @ # <<>> THEN Append(@, NL) ELSE @) \o ev.line]
            IN  Plan(t, WritelnAll(t, render_code_line(ev.line,
                            t.current_language, left_margin(t),
                            current_width(t))))
      [] ev.kind = "CodeBlockEnd" ->
            Plan([s EXCEPT !.current_language = "none",
                           !.code_buffer = <<>>], <<>>)
      [] ev.kind = "ListItem" ->
            LET r == render_list_item(ev.indent, ev.bullet, ev.content,
                         current_width(s), left_margin(s), s.list_state)
                t == [s EXCEPT !.list_state = r.ls]
            IN  [init |-> t, steps |-> WritelnAll(t, r.lines),
                 marker |-> r.marker]
      [] ev.kind = "ListEnd" ->
            Plan([s EXCEPT !.list_state = ListMarkPendingReset(@)], <<>>)
      [] ev.kind \in {"TableHeader", "TableRow"} ->
            Plan([s EXCEPT !.table_rows = Append(@, ev.cols)], <<>>)
      [] ev.kind = "TableSeparator" -> Plan(s, <<>>)
      [] ev.kind = "TableEnd" -> FlushTablePlan(s)
      [] ev.kind = "BlockquoteStart" ->
            Plan([s EXCEPT !.in_blockquote = TRUE,
                           !.blockquote_depth = ev.depth], <<>>)
      [] ev.kind = "BlockquoteLine" ->
            LET margin == left_margin(s)
                wrapped == text_wrap(ev.text, current_width(s), margin, margin)
            IN  Plan(s, WritelnAll(s, IF wrapped = <<>> THEN <<margin>>
                                      ELSE wrapped))
      [] ev.kind = "BlockquoteEnd" ->
            Plan([s EXCEPT !.in_blockquote = FALSE,
                           !.blockquote_depth = 0], <<>>)
      [] ev.kind = "ThinkBlockStart" ->
            Plan(s, <<[text |-> Append(Apply(ThinkBorder,
                                   <<"box-tl", "box-h", " ", "t", "h", "i", "n", "k",
                                     "i", "n", "g", " ", "box-h">>),
                                   NL),
                       st |-> [s EXCEPT !.column = 0, !.in_blockquote = TRUE,
                                        !.blockquote_depth = 1]]>>)
      [] ev.kind = "ThinkBlockLine" ->
            Plan(s, <<WritelnStep(s, Apply(ThinkBorder, <<"box-v">>)
                          \o <<" ">> \o Apply(ThinkStyle, ev.text))>>)
      [] ev.kind = "ThinkBlockEnd" ->
            Plan(s, <<[text |-> Append(Apply(ThinkBorder, <<"box-bl">>), NL),
                       st |-> [s EXCEPT !.column = 0, !.in_blockquote = FALSE,
                                        !.blockquote_depth = 0]]>>)
      [] ev.kind = "HorizontalRule" ->
            Plan(s, <<WritelnStep(s, left_margin(s)
                          \o Apply(HrStyle,
                                   Repeat(<<"box-h">>, current_width(s))))>>)
      [] ev.kind \in {"EmptyLine", "Newline"} ->
            Plan(s, <<WritelnStep(s, <<>>)>>)

-----------------------------------------------------------------------------
(* The events given to render_event. *)

Ordinals == {1, 7}
Bullets == {[kind |-> "Ordered", n |-> n] : n \in Ordinals}
               \cup {[kind |-> "Dash"], [kind |-> "PlusExpand"]}
SomeText == <<"a">>
TableCols == {<< <<"a">> >>, << <<"a">>, <<"b", "b">> >>}
RendererWidths == {12}
Indents == {0, 1, 2}
Depths == {0, 1, 2}

ListItemEvents ==
    {[kind |-> "ListItem", indent |-> i, bullet |-> b, content |-> SomeText] :
        i \in Indents, b \in Bullets}
StyledEvents ==
    {[kind |-> k, text |-> SomeText] :
        k \in {"InlineCode", "Bold", "Italic", "BoldItalic", "Underline",
               "Strikeout", "Image", "Footnote", "Prompt"}}
InlineElementsEvents ==
    {[kind |-> "InlineElements", elements |-> els] :
        els \in {<<>>,
                 <<[kind |-> "Text", text |-> SomeText],
                   [kind |-> "Link", text |-> SomeText, url |-> <<"u">>]>>}}
TableRowEvents ==
    {[kind |-> k, cols |-> c] : k \in {"TableHeader", "TableRow"},
                                c \in TableCols}
CodeBlockStartEvents ==
    {[kind |-> "CodeBlockStart", language |-> l] : l \in {"none", "rs"}}
BlockquoteStartEvents ==
    {[kind |-> "BlockquoteStart", depth |-> d] : d \in Depths}

AllEvents ==
    {[kind |-> "Text", text |-> SomeText],
     [kind |-> "Link", text |-> SomeText, url |-> <<"u">>],
     [kind |-> "Heading", level |-> 1, content |-> SomeText],
     [kind |-> "CodeBlockLine", line |-> <<" ", "x">>],
     [kind |-> "BlockquoteLine", text |-> SomeText],
     [kind |-> "ThinkBlockLine", text |-> SomeText]}
        \cup {[kind |-> k] :
                 k \in {"CodeBlockEnd", "ListEnd", "TableSeparator",
                        "TableEnd", "BlockquoteEnd", "ThinkBlockStart",
                        "ThinkBlockEnd", "HorizontalRule", "EmptyLine",
                        "Newline"}}
        \cup ListItemEvents \cup StyledEvents \cup InlineElementsEvents
        \cup TableRowEvents \cup CodeBlockStartEvents
        \cup BlockquoteStartEvents

-----------------------------------------------------------------------------
(* The state machine of the renderer. *)

NoEvent == [kind |-> "none"]
NoSeps == [ListEnd |-> FALSE, EmptyLine |-> FALSE, Newline |-> FALSE]
NoItem == [indent |-> 0, ordered |-> FALSE, marker |-> NoMarker,
           present |-> FALSE, seps |-> NoSeps]
NoRun == [n |-> 0, uniform |-> TRUE, indent |-> 0, broke |-> FALSE]
NoCall == [fn |-> "none"]
NoLast == [event |-> NoEvent, result |-> "none", marker |-> NoMarker]
\* `log` is the order in which the sink was asked to write and to flush.
NoWrites == [written |-> <<>>, attempts |-> 0, flushes |-> 0, log |-> <<>>]

InitRenderer(w) ==
    /\ renderer_width = w
    /\ list_state = ListStateDefault
    /\ table_rows = <<>>
    /\ in_blockquote = FALSE
    /\ blockquote_depth = 0
    /\ current_language = "none"
    /\ code_buffer = <<>>
    /\ column = 0
    /\ writer = NoWrites
    /\ finished = FALSE
    /\ events = 0
    /\ last = NoLast
    /\ prev_item = NoItem
    /\ run = NoRun

Init == (\E w \in RendererWidths : InitRenderer(w)) /\ call = NoCall

SetSelf(s) ==
    /\ renderer_width' = s.width
    /\ list_state' = s.list_state
    /\ table_rows' = s.table_rows
    /\ in_blockquote' = s.in_blockquote
    /\ blockquote_depth' = s.blockquote_depth
    /\ current_language' = s.current_language
    /\ code_buffer' = s.code_buffer
    /\ column' = s.column

\* The list item of the latest ListItem call that has returned, while only
\* ListEnd, EmptyLine and Newline events have followed it, and the kinds of
\* those events.
ObservePrevItem ==
    prev_item' =
        IF last.event.kind = "ListItem"
        THEN [indent |-> last.event.indent,
              ordered |-> last.event.bullet.kind = "Ordered",
              marker |-> last.marker, present |-> TRUE, seps |-> NoSeps]
        ELSE IF last.event.kind \in {"ListEnd", "EmptyLine", "Newline"}
             THEN IF prev_item.present
                  THEN [prev_item EXCEPT !.seps[last.event.kind] = TRUE]
                  ELSE prev_item
        ELSE NoItem

\* The list items since construction or the last event other than ListItem,
\* ListEnd, EmptyLine and Newline: how many, and whether all were ordered
\* items of one indent; and whether such an event has come after a list item.
ObserveRun(ev) ==
    run' =
        IF ev.kind = "ListItem"
        THEN LET u == /\ run.uniform
                      /\ ev.bullet.kind = "Ordered"
                      /\ (run.n = 0 \/ ev.indent = run.indent)
             IN  [n |-> run.n + 1, uniform |-> u,
                  indent |-> IF u THEN ev.indent ELSE 0, broke |-> run.broke]
        ELSE IF ev.kind \in {"ListEnd", "EmptyLine", "Newline"} THEN run
        ELSE [NoRun EXCEPT !.broke = run.broke \/ run.n > 0]

\* A render_event that goes on to the rest of its writes and assignments
\* after a rejected write.
RenderOutcomeGoesOn(plan, ev, fail) ==
    LET n == Len(plan.steps)
    IN  [st |-> IF n = 0 THEN plan.init ELSE plan.steps[n].st,
         writer |-> [written |-> [k \in (1..n) \ {fail} |-> plan.steps[k].text],
                     attempts |-> n,
                     flushes |-> 1,
                     log |-> Append([k \in 1..n |-> "write"], "flush")],
         last |-> [event |-> ev,
                   result |-> IF fail = 0 THEN "ok" ELSE "err",
                   marker |-> plan.marker]]

\* A render_event that flushes the sink only when the call wrote something.
RenderOutcomeFlushIfWritten(plan, ev, fail) ==
    LET n == Len(plan.steps)
        accepted == IF fail \in 1..n THEN fail - 1 ELSE n
        flushed == fail \notin 1..n /\ n > 0
    IN  [st |-> IF accepted = 0 THEN plan.init ELSE plan.steps[accepted].st,
         writer |-> [written |-> [k \in 1..accepted |-> plan.steps[k].text],
                     attempts |-> IF fail \in 1..n THEN fail ELSE n,
                     flushes |-> IF flushed THEN 1 ELSE 0,
                     log |-> [k \in 1..(IF fail \in 1..n THEN fail ELSE n)
                                 |-> "write"]
                             \o (IF flushed THEN <<"flush">> ELSE <<>>)],
         last |-> [event |-> ev,
                   result |-> IF fail = 0 \/ (~flushed /\ fail = n + 1)
                              THEN "ok" ELSE "err",
                   marker |-> plan.marker]]

\* The calls of render_event that panic: of its arms, only TableEnd reaches
\* an operation that can (render_table on the buffered rows).
Panics(s, ev) ==
    /\ ev.kind = "TableEnd"
    /\ s.table_rows # <<>>
    /\ TablePanics(s.table_rows, left_margin(s), s.width)

\* The outcome of a call that panics: nothing is returned.
PanicOutcome(s, ev) ==
    [st |-> s, writer |-> NoWrites,
     last |-> [event |-> ev, result |-> "panic", marker |-> NoMarker]]

\* What render_event does on ev from the state s when the sink rejects the
\* fail-th operation of the call (0: none; k: the k-th write; one more than
\* the writes: the flush): the rejected write or flush returns its error
\* through `?`.
RenderOutcome(plan, ev, fail) ==
    LET n == Len(plan.steps)
        accepted == IF fail \in 1..n THEN fail - 1 ELSE n
    IN  [st |-> IF accepted = 0 THEN plan.init ELSE plan.steps[accepted].st,
         writer |-> [written |-> [k \in 1..accepted |-> plan.steps[k].text],
                     attempts |-> IF fail \in 1..n THEN fail ELSE n,
                     flushes |-> IF fail \in 1..n THEN 0 ELSE 1,
                     log |-> IF fail \in 1..n THEN [k \in 1..fail |-> "write"]
                             ELSE Append([k \in 1..n |-> "write"], "flush")],
         last |-> [event |-> ev,
                   result |-> IF fail = 0 THEN "ok" ELSE "err",
                   marker |-> plan.marker]]

\* An entry into the match that also drops the buffered rows on an event
\* that is not part of a list.
EnteredDroppingRows(s, ev) ==
    IF should_reset_list(ev)
    THEN [s EXCEPT !.list_state = ListReset(@),
                   !.table_rows = IF ev.kind = "TableEnd" THEN @ ELSE <<>>]
    ELSE s

\* The state in which render_event enters its match: the list state is
\* reset first on an event that is not part of a list.
Entered(s, ev) ==
    IF should_reset_list(ev) THEN [s EXCEPT !.list_state = ListReset(@)]
    ELSE s

\* The outcomes of render_event on ev from the state s, one for each
\* operation the sink may reject and one for a sink that rejects none.
RenderOutcomes(s, ev) ==
    IF Panics(Entered(s, ev), ev) THEN {PanicOutcome(Entered(s, ev), ev)}
    ELSE LET plan == Arm(Entered(s, ev), ev)
         IN  {RenderOutcome(plan, ev, fail) :
                 fail \in 0..(Len(plan.steps) + 1)}

\* Renderer::render_event
render_event(ev) ==
    /\ ~finished
    /\ last = NoLast
    /\ events < MaxEvents
    /\ events' = events + 1
    /\ \E o \in RenderOutcomes(Self, ev) :
          /\ SetSelf(o.st)
          /\ writer' = o.writer
          /\ last' = o.last
    /\ ObserveRun(ev)
    /\ UNCHANGED <<finished, prev_item, call>>

RenderText == render_event([kind |-> "Text", text |-> SomeText])
RenderStyled == \E ev \in StyledEvents : render_event(ev)
RenderLink ==
    render_event([kind |-> "Link", text |-> SomeText, url |-> <<"u">>])
RenderInlineElements == \E ev \in InlineElementsEvents : render_event(ev)
RenderHeading ==
    render_event([kind |-> "Heading", level |-> 1, content |-> SomeText])
RenderCodeBlockStart == \E ev \in CodeBlockStartEvents : render_event(ev)
RenderCodeBlockLine ==
    render_event([kind |-> "CodeBlockLine", line |-> <<" ", "x">>])
RenderCodeBlockEnd == render_event([kind |-> "CodeBlockEnd"])
RenderListItem == \E ev \in ListItemEvents : render_event(ev)
RenderListEnd == render_event([kind |-> "ListEnd"])
RenderTableRow == \E ev \in TableRowEvents : render_event(ev)
RenderTableSeparator == render_event([kind |-> "TableSeparator"])
RenderTableEnd == render_event([kind |-> "TableEnd"])
RenderBlockquoteStart == \E ev \in BlockquoteStartEvents : render_event(ev)
RenderBlockquoteLine ==
    render_event([kind |-> "BlockquoteLine", text |-> SomeText])
RenderBlockquoteEnd == render_event([kind |-> "BlockquoteEnd"])
RenderThinkBlockStart == render_event([kind |-> "ThinkBlockStart"])
RenderThinkBlockLine ==
    render_event([kind |-> "ThinkBlockLine", text |-> SomeText])
RenderThinkBlockEnd == render_event([kind |-> "ThinkBlockEnd"])
RenderHorizontalRule == render_event([kind |-> "HorizontalRule"])
RenderBlankLine ==
    \E k \in {"EmptyLine", "Newline"} : render_event([kind |-> k])

\* The caller's loop (for token in &tokens { renderer.push(token)?; }): a
\* call that returned Ok is followed by the next one, and an error ends the
\* loop through `?`.
Proceed ==
    /\ last.result = "ok"
    /\ ObservePrevItem
    /\ last' = NoLast
    /\ writer' = NoWrites
    /\ UNCHANGED <<renderer_width, list_state, table_rows, in_blockquote,
                   blockquote_depth, current_language, code_buffer, column,
                   finished, events, run, call>>

\* Renderer::into_writer
IntoWriter ==
    /\ ~finished
    /\ last = NoLast
    /\ finished' = TRUE
    /\ UNCHANGED <<renderer_width, list_state, table_rows, in_blockquote,
                   blockquote_depth, current_language, code_buffer, column,
                   writer, events, last, prev_item, run, call>>

Next ==
    \/ RenderText
    \/ RenderStyled
    \/ RenderLink
    \/ RenderInlineElements
    \/ RenderHeading
    \/ RenderCodeBlockStart
    \/ RenderCodeBlockLine
    \/ RenderCodeBlockEnd
    \/ RenderListItem
    \/ RenderListEnd
    \/ RenderTableRow
    \/ RenderTableSeparator
    \/ RenderTableEnd
    \/ RenderBlockquoteStart
    \/ RenderBlockquoteLine
    \/ RenderBlockquoteEnd
    \/ RenderThinkBlockStart
    \/ RenderThinkBlockLine
    \/ RenderThinkBlockEnd
    \/ RenderHorizontalRule
    \/ RenderBlankLine
    \/ Proceed
    \/ IntoWriter

Spec == Init /\ [][Next]_vars

\* The renderer over the streams of at most MaxShortEvents events.
MaxShortEvents == 3
ShortRender ==
    \E ev \in AllEvents : events < MaxShortEvents /\ render_event(ev)
ShortNext == ShortRender \/ Proceed \/ IntoWriter
ShortSpec == Init /\ [][ShortNext]_vars

\* The renderer at a width of zero and at a width too narrow for its tables,
\* over the same streams.
AnyWidths == {0, 9}
InitAnyWidth == (\E w \in AnyWidths : InitRenderer(w)) /\ call = NoCall
AnyWidthSpec == InitAnyWidth /\ [][ShortNext]_vars

\* The renderer at the same two widths over streams of events with nothing
\* to draw: blockquote lines and list items of no word, table rows of no
\* cell, and TableEnd, with the events that give them a margin and a table.
MaxEdgeEvents == 3
EdgeTexts == {<<>>, <<" ">>, SomeText}
EdgeEvents ==
    {[kind |-> "BlockquoteLine", text |-> t] : t \in EdgeTexts}
        \cup {[kind |-> "ListItem", indent |-> i, bullet |-> b,
               content |-> t] :
                 i \in {0, 1}, b \in Bullets, t \in EdgeTexts}
        \cup {[kind |-> "TableRow", cols |-> c] :
                 c \in {<<>>, << <<"a">> >>}}
        \cup {[kind |-> "TableEnd"],
              [kind |-> "BlockquoteStart", depth |-> 1]}
EdgeRender ==
    \E ev \in EdgeEvents : events < MaxEdgeEvents /\ render_event(ev)
EdgeNext == EdgeRender \/ Proceed \/ IntoWriter
EdgeSpec == InitAnyWidth /\ [][EdgeNext]_vars

-----------------------------------------------------------------------------
(* The pure functions, each called once on an input of a bounded set. *)

\* The sequences over chars of at most n elements.
RECURSIVE SeqsUpTo(_, _)
SeqsUpTo(chars, n) ==
    IF n = 0 THEN {<<>>}
    ELSE LET shorter == SeqsUpTo(chars, n - 1)
         IN  shorter \cup {Append(t, c) : t \in shorter, c \in chars}

WrapTexts == SeqsUpTo({"a", " ", ESC, "m"}, MaxTextLen)
WrapPrefixes ==
    {Repeat(<<" ">>, k) : k \in 0..MaxPrefix}
        \cup {Apply(BlockquoteBorder, <<"box-v">>) \o <<" ">>}

WrapCalls ==
    {[fn |-> "text_wrap", text |-> t, width |-> w, first_prefix |-> fp,
      next_prefix |-> np, done |-> FALSE, lines |-> <<>>] :
        t \in WrapTexts, w \in 0..MaxWidth, fp \in WrapPrefixes,
        np \in WrapPrefixes}

InitWrap == InitRenderer(0) /\ call \in WrapCalls

UnchangedRenderer ==
    UNCHANGED <<renderer_width, list_state, table_rows, in_blockquote,
                blockquote_depth, current_language, code_buffer, column,
                writer, finished, events, last, prev_item, run>>

CallTextWrap ==
    /\ call.fn = "text_wrap"
    /\ ~call.done
    /\ call' = [call EXCEPT !.done = TRUE,
                            !.lines = text_wrap(call.text, call.width,
                                          call.first_prefix, call.next_prefix)]
    /\ UnchangedRenderer

WrapSpec == InitWrap /\ [][CallTextWrap]_vars

\* The line of the end-to-end scenario: 4 spaces and print(1).
PrintLine == <<" ", " ", " ", " ", "p", "r", "i", "n", "t", "(", "1", ")">>

CodeTexts == SeqsUpTo({"x", " ", TAB, ACCENT}, MaxCodeLen) \cup {PrintLine}

CodeCalls ==
    {[fn |-> "code_wrap", text |-> t, width |-> w, done |-> FALSE,
      indent |-> 0, lines |-> <<>>] :
        t \in CodeTexts, w \in 0..MaxCodeWidth}

InitCode == InitRenderer(0) /\ call \in CodeCalls

CallCodeWrap ==
    /\ call.fn = "code_wrap"
    /\ ~call.done
    /\ \E r \in {code_wrap(call.text, call.width)} :
          call' = [call EXCEPT !.done = TRUE, !.indent = r.indent,
                               !.lines = r.lines]
    /\ UnchangedRenderer

CodeSpec == InitCode /\ [][CallCodeWrap]_vars

\* The cells of the tables: empty, short, long, and styled.
TableCells ==
    {<<>>, <<"a">>, Repeat(<<"a">>, 7), Apply(InlineStyle, <<"b", "b">>)}
TableRowsOf == UNION {[1..n -> TableCells] : n \in 0..2}
\* The rows of the tables of three rows: one or two cells, short or long.
TableShortRows == UNION {[1..n -> {<<"a">>, Repeat(<<"a">>, 7)}] : n \in 1..2}
TableInputs ==
    UNION {[1..n -> TableRowsOf] : n \in 1..2} \cup [1..3 -> TableShortRows]
TableMargins == {<<>>, Apply(BlockquoteBorder, <<"box-v">>) \o <<" ">>}

TableCalls ==
    {[fn |-> "render_table", rows |-> r, margin |-> m, max_width |-> w,
      done |-> FALSE, widths |-> <<>>, lines |-> <<>>] :
        r \in TableInputs, m \in TableMargins, w \in 0..MaxTableWidth}

InitTable == InitRenderer(0) /\ call \in TableCalls

\* render_table, and the widths w it has computed when it returns.
CallRenderTable ==
    /\ call.fn = "render_table"
    /\ ~call.done
    /\ call' = [call EXCEPT
                   !.done = TRUE,
                   !.widths = IF call.rows = <<>> \/ TableColumns(call.rows) = 0
                              THEN <<>>
                              ELSE TableWidths(call.rows, call.margin,
                                               call.max_width),
                   !.lines = render_table(call.rows, call.margin,
                                          call.max_width)]
    /\ UnchangedRenderer

TableSpec == InitTable /\ [][CallRenderTable]_vars

\* render_table on the same tables and margins at four widths: one that is
\* never above the overhead, two at which tables shrink, and the greatest.
DrawWidths == {0, 9, 16, MaxTableWidth}
TableDrawCalls == {c \in TableCalls : c.max_width \in DrawWidths}

InitTableDraw == InitRenderer(0) /\ call \in TableDrawCalls

TableDrawSpec == InitTableDraw /\ [][CallRenderTable]_vars

\* visible_length on the styled strings of the engine: a text between a
\* style start and a reset, an underlined text, and a link.
MaxLabelLen == 2
MaxUrlLen == 2
VisibleLabels == SeqsUpTo({"a", WIDE, ACCENT}, MaxLabelLen)
VisibleUrls == SeqsUpTo({"u", "m", "/"}, MaxUrlLen)
VisibleCalls ==
    {[fn |-> "visible_length", styler |-> k, text |-> t, url |-> u,
      done |-> FALSE, string |-> <<>>, length |-> 0] :
        k \in {"bold", "underline", "link"}, t \in VisibleLabels,
        u \in VisibleUrls}

InitVisible == InitRenderer(0) /\ call \in VisibleCalls

CallVisibleLength ==
    /\ call.fn = "visible_length"
    /\ ~call.done
    /\ \E s \in {CASE call.styler = "link" -> link(call.text, call.url)
                   [] call.styler = "underline" -> underline(call.text)
                   [] OTHER -> Apply(InlineStyle, call.text)} :
          call' = [call EXCEPT !.done = TRUE, !.string = s,
                               !.length = visible_length(s)]
    /\ UnchangedRenderer

VisibleSpec == InitVisible /\ [][CallVisibleLength]_vars

\* split_text on texts with escape sequences that end in m and in K.
MaxSplitLen == 4
SplitTexts == SeqsUpTo({"a", " ", ESC, "m", "K"}, MaxSplitLen)
SplitCalls ==
    {[fn |-> "split_text", text |-> t, done |-> FALSE, words |-> <<>>] :
        t \in SplitTexts}

InitSplit == InitRenderer(0) /\ call \in SplitCalls

CallSplitText ==
    /\ call.fn = "split_text"
    /\ ~call.done
    /\ call' = [call EXCEPT !.done = TRUE, !.words = split_text(call.text)]
    /\ UnchangedRenderer

SplitSpec == InitSplit /\ [][CallSplitText]_vars

\* wrap on cells as format_line returns them: characters of one and of two
\* columns, style sequences and resets.
MaxCellTokens == 4
MaxCellWidth == 3
CellTokens == {<<"a">>, <<WIDE>>, StyleStart(InlineStyle), RESET}
CellTexts == {Concat(ts) : ts \in SeqsUpTo(CellTokens, MaxCellTokens)}
CellCalls ==
    {[fn |-> "wrap", text |-> t, width |-> w, done |-> FALSE, lines |-> <<>>] :
        t \in CellTexts, w \in 0..MaxCellWidth}

InitCell == InitRenderer(0) /\ call \in CellCalls

CallWrap ==
    /\ call.fn = "wrap"
    /\ ~call.done
    /\ call' = [call EXCEPT !.done = TRUE,
                            !.lines = wrap(call.text, call.width)]
    /\ UnchangedRenderer

CellSpec == InitCell /\ [][CallWrap]_vars

\* render_list_item on one list state, item after item, with ListEnd events
\* between them: `items` are the items so far (indent, kind, the marker
\* drawn), `lines` the lines of the last one.
MaxItems == 4
ListItemInputs ==
    {[content |-> <<"a">>, width |-> 12],
     [content |-> <<"a", " ", "a">>, width |-> 4]}
InitList ==
    /\ InitRenderer(0)
    /\ call = [fn |-> "render_list_item", list_state |-> ListStateDefault,
               items |-> <<>>, lines |-> <<>>]

CallRenderListItem ==
    /\ call.fn = "render_list_item"
    /\ Len(call.items) < MaxItems
    /\ \E indent \in Indents, bullet \in Bullets, c \in ListItemInputs :
          \E r \in {render_list_item(indent, bullet, c.content, c.width, <<>>,
                                     call.list_state)} :
             call' = [call EXCEPT
                         !.list_state = r.ls,
                         !.items = Append(@, [indent |-> indent,
                                              ordered |-> bullet.kind = "Ordered",
                                              marker |-> r.marker]),
                         !.lines = r.lines]
    /\ UnchangedRenderer

\* The ListEnd arm of render_event.
CallListEnd ==
    /\ call.fn = "render_list_item"
    /\ call.items # <<>>
    /\ ~call.list_state.pending_reset
    /\ call' = [call EXCEPT !.list_state = ListMarkPendingReset(@)]
    /\ UnchangedRenderer

ListSpec == InitList /\ [][CallRenderListItem \/ CallListEnd]_vars

-----------------------------------------------------------------------------
(* Properties of the renderer (Spec). *)

\* The marker of the ordered item numbered n.
Marker(n) == Append(Digits(n), ".")

\* What the sink has received when every line of ls went through writeln.
Written(ls) == [i \in 1..Len(ls) |-> Append(ls[i], NL)]

Separators == {"ListEnd", "EmptyLine", "Newline"}

\* The last call rendered an ordered list item and returned Ok.
OrderedItemDone ==
    /\ last.result = "ok"
    /\ last.event.kind = "ListItem"
    /\ last.event.bullet.kind = "Ordered"

\* The lines of the item of the last call when its marker is m.
ItemLines(m) ==
    ListItemLines(last.event.indent, TRUE, m, last.event.content,
                  current_width(Self), left_margin(Self))

\* C1: an ordered list item that follows an ordered item of the same indent,
\* with only ListEnd, EmptyLine and Newline events in between, is written
\* with the previous item's number plus one; and those events do not clear
\* the list stack: after them the stack still ends with the level of the
\* item before them.
C1_ListResume ==
    /\ (OrderedItemDone /\ prev_item.present /\ prev_item.ordered
            /\ prev_item.indent = last.event.indent)
        => \E n \in 1..MaxEvents :
              /\ prev_item.marker = Marker(n)
              /\ last.marker = Marker(n + 1)
              /\ writer.written = Written(ItemLines(Marker(n + 1)))
    /\ (prev_item.present /\ last.event.kind \in Separators \cup {"none"})
        => /\ list_state.stack # <<>>
           /\ list_state.stack[Len(list_state.stack)].indent = prev_item.indent

\* The second item of: item, ListEnd, EmptyLine, item, is written as "2.".
C1_Witness ==
    /\ OrderedItemDone
    /\ last.event.indent = 0
    /\ prev_item.present /\ prev_item.ordered /\ prev_item.indent = 0
    /\ prev_item.seps.ListEnd /\ prev_item.seps.EmptyLine
    /\ prev_item.marker = <<"1", ".">>
    /\ writer.written =
           << Apply(ListNumber, <<"2", ".">>) \o <<" ", "a", NL>> >>

\* C2: an event other than ListItem, ListEnd, EmptyLine and Newline leaves
\* the list state empty (stack, counters, pending flag), and it is emptied
\* before the event is processed, so also when a write of the event is
\* rejected; the first ordered item after such an event is written as "1."
\* and is at nesting level 0 (one level on the stack, no indentation by
\* level).
C2_ListReset ==
    /\ last.event.kind \notin Separators \cup {"ListItem", "none"}
        => list_state = ListStateDefault
    /\ (OrderedItemDone /\ run.n = 1)
        => /\ last.marker = <<"1", ".">>
           /\ writer.written = Written(ItemLines(<<"1", ".">>))
           /\ ListLevel(list_state) = 1
           /\ list_state.numbers = <<1>>

\* An ordered item, after a heading-like event that followed a list, is
\* written as "1.".
C2_Witness ==
    /\ OrderedItemDone
    /\ run.n = 1
    /\ run.broke
    /\ last.event.indent = 0
    /\ list_state.numbers = <<1>>
    /\ writer.written =
           << Apply(ListNumber, <<"1", ".">>) \o <<" ", "a", NL>> >>

\* C3: the k-th of k consecutive ordered items of one indent, counted from
\* an empty list state, is written with the number k, whatever ordinal its
\* bullet carries.
C3_OrdinalMonotonic ==
    (OrderedItemDone /\ run.uniform)
        => /\ last.marker = Marker(run.n)
           /\ writer.written = Written(ItemLines(Marker(run.n)))

\* The third ordered item in a row, carrying the ordinal 7, is written "3.".
C3_Witness ==
    /\ OrderedItemDone
    /\ run.uniform
    /\ run.n = 3
    /\ last.event.bullet.n = 7
    /\ last.event.indent = 0
    /\ writer.written =
           << Apply(ListNumber, <<"3", ".">>) \o <<" ", "a", NL>> >>

\* C4: the indents of the list stack increase strictly from bottom to top,
\* and there is one counter for each level of the stack.
C4_StackInvariant ==
    /\ \A i \in 1..(Len(list_state.stack) - 1) :
          list_state.stack[i].indent < list_state.stack[i + 1].indent
    /\ Len(list_state.numbers) = Len(list_state.stack)

\* A third item, whose indent lies between those of the two levels before
\* it: the deeper level has been popped and a new one pushed.
C4_Witness ==
    /\ last.event.kind = "ListItem"
    /\ last.result = "ok"
    /\ run.n = 3
    /\ last.event.indent = 1
    /\ Len(list_state.stack) = 2
    /\ list_state.stack[1].indent = 0
    /\ list_state.numbers = <<1, 1>>

\* The step is a call of render_event on an event of one of the kinds ks.
Called(ks) == last.result = "none" /\ last'.event.kind \in ks

\* C5: a call on TableHeader or TableRow that returns Ok has written nothing
\* and has appended the row's cells at the end of the buffer; one on
\* TableSeparator has written nothing and left the buffer as it was; one on
\* TableEnd has written, line by line, the table render_table makes of the
\* rows buffered before the call, in their order, and has emptied the buffer.
C5_TableBuffering ==
    [][ /\ (Called({"TableHeader", "TableRow"}) /\ last'.result = "ok")
            => /\ writer'.written = <<>>
               /\ table_rows' = Append(table_rows, last'.event.cols)
        /\ (Called({"TableSeparator"}) /\ last'.result = "ok")
            => /\ writer'.written = <<>>
               /\ table_rows' = table_rows
        /\ (Called({"TableEnd"}) /\ last'.result = "ok")
            => /\ writer'.written =
                      Written(render_table(table_rows, left_margin(Self),
                                           renderer_width))
               /\ table_rows' = <<>>
      ]_vars

\* TableEnd after a header of two cells and a row of one: the five lines of
\* the table are written, the header row first, and the buffer is empty.
C5_Witness ==
    /\ last.event.kind = "TableEnd"
    /\ last.result = "ok"
    /\ events = 3
    /\ table_rows = <<>>
    /\ Len(writer.written) = 5
    /\ writer.written =
           Written(render_table(<< << <<"a">>, <<"b", "b">> >>, << <<"a">> >> >>,
                                <<>>, renderer_width))

\* C6: when the stream of events has ended (the renderer has been consumed),
\* no row is left in the table buffer: the rows received without a TableEnd
\* have been rendered.
C6_StreamEndFlushesTable == finished => table_rows = <<>>

\* The fields of the Renderer after the step.
SelfAfter ==
    [width |-> renderer_width', list_state |-> list_state',
     table_rows |-> table_rows', in_blockquote |-> in_blockquote',
     blockquote_depth |-> blockquote_depth',
     current_language |-> current_language', code_buffer |-> code_buffer',
     column |-> column']

\* What render_event does on ev when the sink rejects nothing.
Unfailed(ev) == RenderOutcome(Arm(Entered(Self, ev), ev), ev, 0)

\* C7 as stated: a call that returns an error leaves the state of the
\* renderer as it was before the call.
C7_StateAsBeforeCall == [][last'.result = "err" => SelfAfter = Self]_vars

\* C7: a call in which the sink rejects a write or the flush returns the
\* error; the rejected operation is the last the call makes on the sink (no
\* write after a rejected write, no flush after it, no second attempt), and
\* what was written before it is a prefix of what the call writes when
\* nothing is rejected.  The state is left as it is at the rejected
\* operation: what the call assigned before it stays (the list reset of an
\* event that resets the list, the stack and counter of a list item, the
\* line in the code buffer, the table buffer taken by TableEnd), what it
\* assigns after the write is not assigned (the blockquote flag and depth of
\* ThinkBlockStart and ThinkBlockEnd), and when the flush is rejected the
\* state is the one of the call that returns Ok.
C7_WriteFailure ==
    [][ last'.result = "err" =>
          \A ev \in {last'.event} : \A ok \in {Unfailed(ev)} :
          LET n == Len(writer'.written)
          IN  /\ \/ writer'.attempts = n + 1 /\ writer'.flushes = 0
                 \/ writer'.attempts = n /\ writer'.flushes = 1
              /\ n <= Len(ok.writer.written)
              /\ writer'.written = SubSeq(ok.writer.written, 1, n)
              /\ writer'.flushes = 1 => n = Len(ok.writer.written)
              /\ \A f \in DOMAIN Self : SelfAfter[f] \in {Self[f], ok.st[f]}
              /\ writer'.flushes = 1 => SelfAfter = ok.st
              /\ should_reset_list(ev) => list_state' = ListStateDefault
              /\ ev.kind = "ListItem" => list_state' = ok.st.list_state
              /\ ev.kind = "CodeBlockLine" => code_buffer' = ok.st.code_buffer
              /\ ev.kind = "TableEnd" => table_rows' = <<>>
              /\ (ev.kind \in {"ThinkBlockStart", "ThinkBlockEnd"}
                      /\ writer'.flushes = 0)
                  => /\ in_blockquote' = in_blockquote
                     /\ blockquote_depth' = blockquote_depth
      ]_vars

\* TableEnd whose second line the sink rejected: one line written, no flush,
\* the error returned, and the buffered rows gone.
C7_Witness ==
    /\ last.event.kind = "TableEnd"
    /\ last.result = "err"
    /\ Len(writer.written) = 1
    /\ writer.attempts = 2
    /\ writer.flushes = 0
    /\ table_rows = <<>>

-----------------------------------------------------------------------------
(* Properties of text_wrap (WrapSpec). *)

\* text_wrap has returned.
WrapDone == call.fn = "text_wrap" /\ call.done

\* The prefix of the i-th line, the words behind it, and the width the
\* prefix leaves.
LinePrefix(i) == IF i = 1 THEN call.first_prefix ELSE call.next_prefix
LineWords(i) ==
    split_text(SubSeq(call.lines[i], Len(LinePrefix(i)) + 1,
                      Len(call.lines[i])))
Available(i) == SatSub(call.width, visible_length(LinePrefix(i)))

\* The i-th line holds one word, which is wider than the width its prefix
\* leaves.
OverlongWord(i) ==
    /\ Len(LineWords(i)) = 1
    /\ visible_length(LineWords(i)[1]) > Available(i)

\* C8 as stated: a line of text_wrap is no wider than width, unless it holds
\* a single word that alone is wider than the available width.
C8_WidthOrOverlongWord ==
    WrapDone =>
        \A i \in 1..Len(call.lines) :
            \/ visible_length(call.lines[i]) <= call.width
            \/ OverlongWord(i)

\* C8: a line of text_wrap is no wider than width, unless it holds a single
\* word and either that word alone is wider than the available width or the
\* line's prefix alone is wider than width; a line of two or more words is
\* never wider than width.
C8_LineWidth ==
    WrapDone =>
        \A i \in 1..Len(call.lines) :
            \/ visible_length(call.lines[i]) <= call.width
            \/ OverlongWord(i)
            \/ /\ Len(LineWords(i)) = 1
               /\ visible_length(LinePrefix(i)) > call.width

\* "a aa" at width 1: the first line fits, the second holds the overlong
\* word alone.
C8_Witness ==
    /\ WrapDone
    /\ call.text = <<"a", " ", "a", "a">>
    /\ call.width = 1
    /\ call.first_prefix = <<>> /\ call.next_prefix = <<>>
    /\ call.lines = << <<"a">>, <<"a", "a">> >>
    /\ visible_length(call.lines[1]) <= call.width
    /\ OverlongWord(2)

-----------------------------------------------------------------------------
(* Properties of code_wrap (CodeSpec). *)

\* code_wrap has returned.
CodeDone == call.fn = "code_wrap" /\ call.done

\* str::trim_end
RECURSIVE TrimEnd(_)
TrimEnd(s) ==
    IF s # <<>> /\ IsWhitespace(s[Len(s)])
    THEN TrimEnd(SubSeq(s, 1, Len(s) - 1))
    ELSE s

\* The line without its leading whitespace, and that whitespace.
CodeContent == TrimStart(call.text)
CodeIndent == SubSeq(call.text, 1, Len(call.text) - Len(CodeContent))

IsPrefix(p, s) == Len(p) <= Len(s) /\ SubSeq(s, 1, Len(p)) = p

\* The width left when the indent and the 4 columns of the continuation
\* marker are reserved.
CodeWidthLeft == SatSub(SatSub(call.width, 4), StrBytes(CodeIndent))

-----------------------------------------------------------------------------
\* C28: when code_wrap returns more than one chunk, every chunk but the
\* last holds as many characters of the content as the width left, the
\* first chunk begins with the indent of the line and no later chunk
\* repeats it, and the chunks one behind the other are the line, less
\* whitespace at its end; code_wrap never returns an empty list.
C28_ChunksGiveLine ==
    CodeDone =>
        /\ call.lines # <<>>
        /\ Len(call.lines) > 1 =>
              /\ IsPrefix(CodeIndent, call.lines[1])
              /\ Len(call.lines[1]) = Len(CodeIndent) + CodeWidthLeft
              /\ \A i \in 2..(Len(call.lines) - 1) :
                    Len(call.lines[i]) = CodeWidthLeft
              /\ IsPrefix(Concat(call.lines), call.text)
              /\ IsBlank(SubSeq(call.text, Len(Concat(call.lines)) + 1,
                                Len(call.text)))

(* Properties of render_table (TableSpec). *)

\* render_table has returned a table of at least one column.
TableDone ==
    /\ call.fn = "render_table"
    /\ call.done
    /\ call.rows # <<>>
    /\ TableColumns(call.rows) > 0

\* The overhead: the margin, one border and three columns for each column.
Overhead == StrWidth(call.margin) + 1 + 3 * TableColumns(call.rows)

\* The overhead and the natural widths together exceed the max width.
Overflows == Overhead + SumSeq(NaturalWidths(call.rows)) > call.max_width

\* The widths of the columns are the ones the top border is drawn with.
WidthsDrawn ==
    call.lines[1] =
        TableHLine(call.widths, call.margin, "box-tl", "box-tm", "box-tr")

\* C10 as stated: whenever the overhead and the natural widths exceed the
\* max width, every column is at least 5 wide.
C10_FloorWheneverOverflow ==
    (TableDone /\ Overflows)
        => /\ WidthsDrawn
           /\ \A i \in 1..Len(call.widths) : call.widths[i] >= 5

\* C10: when the overhead and the natural widths exceed the max width and
\* the max width exceeds the overhead, every column is at least 5 wide; when
\* the max width does not exceed the overhead, the columns keep their
\* natural widths.
C10_ShrinkFloor ==
    TableDone =>
        /\ WidthsDrawn
        /\ (Overflows /\ call.max_width > Overhead)
            => \A i \in 1..Len(call.widths) : call.widths[i] >= 5
        /\ call.max_width <= Overhead
            => call.widths = NaturalWidths(call.rows)

\* One cell of 7 columns and a max width of 5: the share of the column is 1
\* and it is drawn 5 wide.
C10_Witness ==
    /\ TableDone
    /\ call.rows = << <<Repeat(<<"a">>, 7)>> >>
    /\ call.margin = <<>>
    /\ call.max_width = 5
    /\ Overflows
    /\ call.max_width > Overhead
    /\ call.widths = <<5>>
    /\ WidthsDrawn

\* The glyph a line of the table begins with, behind the margin: a corner
\* or tee of a border line, or the vertical bar of a content line.
LineGlyph(i) == call.lines[i][Len(call.margin) + Len(StyleStart(TableBorder)) + 1]

\* No cell of the table is wider than its column, so no cell wraps.
NoCellWraps ==
    \A r \in 1..Len(call.rows) : \A i \in 1..Len(call.rows[r]) :
        visible_length(call.rows[r][i]) <= call.widths[i]

\* C11 as stated: a table of R >= 2 rows in which no cell wraps is R + 3
\* lines: the top border, the header row, one separator, the R - 1 body
\* rows with no separator between them, and the bottom border.
C11_SeparatorAfterHeaderOnly ==
    (TableDone /\ Len(call.rows) >= 2 /\ NoCellWraps)
        => LET R == Len(call.rows) IN
           /\ Len(call.lines) = R + 3
           /\ LineGlyph(1) = "box-tl"
           /\ LineGlyph(2) = "box-v"
           /\ LineGlyph(3) = "box-ml"
           /\ \A i \in 4..(R + 2) : LineGlyph(i) = "box-v"
           /\ LineGlyph(R + 3) = "box-bl"

\* C11: a table of R >= 1 rows in which no cell wraps is 2R + 1 lines: the
\* top border, then the rows in order with one separator line behind every
\* row but the last (so also between body rows), and the bottom border; a
\* table of 2 rows is 5 lines.
C11_TableLines ==
    (TableDone /\ NoCellWraps)
        => LET R == Len(call.rows) IN
           /\ Len(call.lines) = 2 * R + 1
           /\ LineGlyph(1) = "box-tl"
           /\ \A r \in 1..R : LineGlyph(2 * r) = "box-v"
           /\ \A r \in 1..(R - 1) : LineGlyph(2 * r + 1) = "box-ml"
           /\ LineGlyph(2 * R + 1) = "box-bl"

\* A table of three rows of one short cell: seven lines, with a separator
\* between the two body rows.
C11_Witness ==
    /\ TableDone
    /\ call.rows = << << <<"a">> >>, << <<"a">> >>, << <<"a">> >> >>
    /\ call.margin = <<>>
    /\ call.max_width = MaxTableWidth
    /\ NoCellWraps
    /\ Len(call.lines) = 7
    /\ LineGlyph(4) = "box-v"
    /\ LineGlyph(5) = "box-ml"
    /\ LineGlyph(6) = "box-v"

\* The lines of the call joined with single spaces, with and without their
\* prefixes, and wrapped again as the call was.
LineContent(i) ==
    SubSeq(call.lines[i], Len(LinePrefix(i)) + 1, Len(call.lines[i]))
Rewrapped(text) ==
    text_wrap(text, call.width, call.first_prefix, call.next_prefix)
JoinedLines == Join(call.lines, <<" ">>)
JoinedContents ==
    Join([i \in 1..Len(call.lines) |-> LineContent(i)], <<" ">>)
BlankPrefix(p) == \A i \in 1..Len(p) : p[i] = " "

\* C12 as stated: the lines of text_wrap, joined with single spaces and
\* wrapped again with the same width and prefixes, are the same lines.
C12_RewrapOfJoinedLines ==
    WrapDone => Rewrapped(JoinedLines) = call.lines

\* C12: the lines of text_wrap, joined with single spaces and wrapped again
\* with the same width and prefixes, are the same lines when both prefixes
\* are empty or blanks only; for every pair of prefixes, the lines stripped
\* of their prefixes, joined with single spaces and wrapped again, are the
\* same lines.
C12_WrapIdempotent ==
    WrapDone =>
        /\ Rewrapped(JoinedContents) = call.lines
        /\ (BlankPrefix(call.first_prefix) /\ BlankPrefix(call.next_prefix))
               => Rewrapped(JoinedLines) = call.lines

\* Two words wrapped into two lines behind a blank prefix, and wrapped into
\* the same two lines again.
C12_Witness ==
    /\ WrapDone
    /\ call.text = <<"a", " ", "a", "a">>
    /\ call.width = 3
    /\ call.first_prefix = <<" ">>
    /\ call.next_prefix = <<" ">>
    /\ call.lines = << <<" ", "a">>, <<" ", "a", "a">> >>
    /\ JoinedLines = <<" ", "a", " ", " ", "a", "a">>
    /\ Rewrapped(JoinedLines) = call.lines

\* The characters of the styled string of the call that stand outside its
\* escape sequences: the text, and for a link the text, a blank and the url
\* in parentheses.
VisibleDone == call.fn = "visible_length" /\ call.done
OutsideEscapes ==
    IF call.styler = "link"
    THEN call.text \o <<" ", "(">> \o call.url \o <<")">>
    ELSE call.text

\* C13 as stated: for every styled string of the engine, links included,
\* visible_length is the sum of the display widths of the characters
\* outside its escape sequences.
C13_VisibleWidth ==
    VisibleDone => call.length = StrWidth(OutsideEscapes)

\* The events whose content render_event writes in the call itself, and
\* the events whose content is kept in the table buffer.
WrittenAtOnce ==
    {"Text", "InlineCode", "Bold", "Italic", "BoldItalic", "Underline",
     "Strikeout", "Image", "Footnote", "Prompt", "Link", "CodeBlockLine",
     "ListItem", "BlockquoteLine", "ThinkBlockStart", "ThinkBlockLine",
     "ThinkBlockEnd", "HorizontalRule", "EmptyLine", "Newline"}
HeldBack == {"TableHeader", "TableRow"}

\* C14: a render_event call that returned Ok asked the sink to flush exactly
\* once, after every write of the call, and every write was accepted; an
\* event with content has written it in the call, unless it is a table row,
\* which is written nothing of and stands last in the table buffer.
C14_FlushPerEvent ==
    last.result = "ok" =>
        /\ writer.flushes = 1
        /\ writer.attempts = Len(writer.written)
        /\ writer.log = Append([k \in 1..Len(writer.written) |-> "write"],
                               "flush")
        /\ last.event.kind \in WrittenAtOnce => writer.written # <<>>
        /\ last.event.kind \in HeldBack =>
               /\ writer.written = <<>>
               /\ table_rows # <<>>
               /\ table_rows[Len(table_rows)] = last.event.cols

\* A call that kept a second table row behind the header and flushed
\* without a write.
C14_Witness ==
    /\ last.result = "ok"
    /\ last.event.kind = "TableRow"
    /\ Len(table_rows) = 2
    /\ table_rows[2] = last.event.cols
    /\ writer.written = <<>>
    /\ writer.log = <<"flush">>

\* The conjuncts of C15 on every call: it returns Ok or the error of the
\* sink; in no reachable state does an event reach a panicking operation
\* (the table shrink computation neither divides by zero nor subtracts below
\* zero nor indexes out of range); a CodeBlockLine outside a code block is
\* written as the lines of a code line of no language.
NeverPanics ==
    /\ last'.result \in {"none", "ok", "err"}
    /\ last.result = "none" =>
           \A ev \in AllEvents : ~Panics(Entered(Self, ev), ev)
    /\ (Called({"CodeBlockLine"}) /\ current_language = "none"
            /\ last'.result = "ok")
        => writer'.written =
               Written(render_code_line(last'.event.line, "none",
                           left_margin(Self), current_width(Self)))

\* C15 as stated: no call of render_event panics, whatever the event, the
\* state and the width (zero included); a CodeBlockLine outside a code block
\* is rendered as plain text, and TableEnd on an empty buffer does nothing:
\* it writes nothing and leaves the state of the renderer as it was.
C15_TableEndDoesNothing ==
    [][ /\ NeverPanics
        /\ (Called({"TableEnd"}) /\ table_rows = <<>>)
            => /\ writer'.written = <<>>
               /\ SelfAfter = Self
      ]_vars

\* C15: no call of render_event panics, whatever the event, the state and
\* the width (zero included); a CodeBlockLine outside a code block is
\* rendered as plain text, and TableEnd on an empty buffer writes nothing
\* and changes nothing of the state but the list state, which it resets as
\* every event outside a list does.
C15_NoFault ==
    [][ /\ NeverPanics
        /\ (Called({"TableEnd"}) /\ table_rows = <<>>)
            => /\ writer'.written = <<>>
               /\ SelfAfter = [Self EXCEPT !.list_state = ListStateDefault]
      ]_vars

\* At width zero: TableEnd on a buffer of two rows has gone through the
\* shrink test and written the five lines of the table.
C15_Witness ==
    /\ renderer_width = 0
    /\ last.event.kind = "TableEnd"
    /\ last.result = "ok"
    /\ Len(writer.written) = 5

\* The number of vertical border glyphs in the i-th line of the table,
\* behind the margin the caller gave.
CountGlyph(s, g) == Cardinality({i \in 1..Len(s) : s[i] = g})
VerticalBorders(i) ==
    CountGlyph(SubSeq(call.lines[i], Len(call.margin) + 1,
                      Len(call.lines[i])), "box-v")

\* C16: every content line of render_table for a table of n columns holds,
\* behind the margin, exactly n + 1 vertical border glyphs, also the lines
\* of a row with fewer than n cells and the continuation lines of a row
\* with a wrapped cell.
C16_BorderCount ==
    TableDone =>
        \A i \in 1..Len(call.lines) :
            LineGlyph(i) = "box-v"
                => VerticalBorders(i) = TableColumns(call.rows) + 1

\* A row of one long cell above a row of two cells, shrunk to columns of
\* five: the first row lacks a cell and wraps into two lines, each of three
\* borders.
C16_Witness ==
    /\ TableDone
    /\ call.rows = << <<Repeat(<<"a">>, 7)>>, << <<"a">>, <<"a">> >> >>
    /\ call.margin = <<>>
    /\ call.max_width = 12
    /\ call.widths = <<5, 5>>
    /\ Len(call.lines) = 6
    /\ LineGlyph(2) = "box-v" /\ VerticalBorders(2) = 3
    /\ LineGlyph(3) = "box-v" /\ VerticalBorders(3) = 3
    /\ LineGlyph(5) = "box-v" /\ VerticalBorders(5) = 3

\* The items of the list so far, and the number of ordered items up to the
\* k-th at its indent with no item of a smaller indent between them and it.
ListItems == IF call.fn = "render_list_item" THEN call.items ELSE <<>>
OrderedBefore(k) ==
    Cardinality({j \in 1..k :
        /\ ListItems[j].ordered
        /\ ListItems[j].indent = ListItems[k].indent
        /\ \A l \in j..k : ListItems[l].indent >= ListItems[k].indent})

\* C17: every frame of the list has a counter of its own, which counts the
\* ordered items at its level: an ordered item is numbered by the ordered
\* items at its indent since the last item of a smaller indent, itself
\* included.  So an outer frame goes on counting after deeper frames were
\* popped, and an item at a deeper indent after them is numbered 1 again
\* (ordered items at indents 0, 1, 0, 1 are numbered 1, 1, 2, 1).
C17_FrameCounters ==
    /\ call.fn = "render_list_item" =>
           Len(call.list_state.numbers) = Len(call.list_state.stack)
    /\ \A k \in 1..Len(ListItems) :
           ListItems[k].ordered =>
               ListItems[k].marker = Marker(OrderedBefore(k))

\* Ordered items at the indents 0, 1, 0, 1, numbered 1, 1, 2, 1.
C17_Witness ==
    /\ Len(ListItems) = 4
    /\ \A k \in 1..4 : ListItems[k].ordered
    /\ [k \in 1..4 |-> ListItems[k].indent] = <<0, 1, 0, 1>>
    /\ [k \in 1..4 |-> ListItems[k].marker] =
           <<Marker(1), Marker(1), Marker(2), Marker(1)>>
    /\ call.list_state.numbers = <<2, 1>>

\* The item a call of render_list_item has just added, and the top frame
\* before the call.
ItemAdded == Len(call'.items) = Len(call.items) + 1
NewItem == call'.items[Len(call'.items)]
TopFrame == call.list_state.stack[Len(call.list_state.stack)]

\* C19: an item at the indent of the top frame never replaces the frame,
\* whatever its kind: the stack, and so the kind the frame was created
\* with, stays as it was; an unordered item leaves the counters as they
\* were and draws a bullet, an ordered item adds one to the top counter and
\* is numbered by it.
C19_SameIndentKeepsFrame ==
    [][ (/\ ItemAdded
         /\ call.list_state.stack # <<>>
         /\ NewItem.indent = TopFrame.indent)
        => LET top == Len(call.list_state.stack) IN
           /\ call'.list_state.stack = call.list_state.stack
           /\ NewItem.ordered =>
                  /\ call'.list_state.numbers =
                         [call.list_state.numbers EXCEPT ![top] = @ + 1]
                  /\ NewItem.marker = Marker(call.list_state.numbers[top] + 1)
           /\ ~NewItem.ordered =>
                  /\ call'.list_state.numbers = call.list_state.numbers
                  /\ NewItem.marker \in {<<BULLETS[((top - 1) % 4) + 1]>>,
                                         <<"plus-box">>}
      ]_vars

\* An ordered item, a dash item and an ordered item at indent 0: drawn as
\* 1., a bullet and 2., in the one frame the first item created.
C19_Witness ==
    /\ Len(ListItems) = 3
    /\ [k \in 1..3 |-> ListItems[k].indent] = <<0, 0, 0>>
    /\ [k \in 1..3 |-> ListItems[k].ordered] = <<TRUE, FALSE, TRUE>>
    /\ [k \in 1..3 |-> ListItems[k].marker] =
           <<Marker(1), <<"bullet-0">>, Marker(2)>>
    /\ call.list_state.stack = <<[indent |-> 0, ordered |-> TRUE]>>
    /\ call.list_state.numbers = <<2>>

\* The blanks a line begins with, the last item of the list and its lines.
RECURSIVE LeadingBlanks(_)
LeadingBlanks(s) ==
    IF s # <<>> /\ Head(s) = " " THEN 1 + LeadingBlanks(Tail(s)) ELSE 0
LastItem == ListItems[Len(ListItems)]
ItemContinuation(padding) ==
    \A i \in 2..Len(call.lines) :
        /\ LeadingBlanks(call.lines[i])
               = padding + visible_length(LastItem.marker) + 1
        /\ Len(call.lines[i]) > LeadingBlanks(call.lines[i])

\* C20 as stated: the left padding of a list item is 2 columns for each
\* nesting level of the item, its depth in the list stack, and the
\* continuation prefix of its wrapped lines is as wide as the padding, the
\* marker and one blank.
C20_PaddingByDepth ==
    ListItems # <<>> =>
        LET padding == 2 * (ListLevel(call.list_state) - 1) IN
        /\ LeadingBlanks(call.lines[1]) = padding
        /\ ItemContinuation(padding)

\* C20: the left padding of a list item is 2 columns for each unit of the
\* indent of its event, whatever its depth in the list stack, and the
\* continuation prefix of its wrapped lines is as wide as the padding, the
\* marker and one blank, so that they begin under the item's text.
C20_ListIndentation ==
    ListItems # <<>> =>
        LET padding == 2 * LastItem.indent IN
        /\ LeadingBlanks(call.lines[1]) = padding
        /\ ItemContinuation(padding)

\* The first item of a list at indent 2, wrapped into two lines: its frame
\* is the only one of the stack, its padding is 4 and its second line
\* begins with 7 blanks.
C20_Witness ==
    /\ Len(ListItems) = 1
    /\ LastItem.indent = 2
    /\ LastItem.marker = Marker(1)
    /\ ListLevel(call.list_state) = 1
    /\ Len(call.lines) = 2
    /\ LeadingBlanks(call.lines[1]) = 4
    /\ LeadingBlanks(call.lines[2]) = 7

\* The state s with the other value of pending_reset, and with the flag
\* left out of the comparison.
FlipPending(s) == [s EXCEPT !.list_state.pending_reset = ~@]
StripPending(s) == [s EXCEPT !.list_state.pending_reset = FALSE]

\* C18: the pending_reset flag has no effect on what is rendered.  Whatever
\* a call of render_event does, the same call on the renderer that differs
\* in pending_reset alone can do too: the same writes and flush, the same
\* result and marker, and a state after the call that is the same except,
\* at most, for pending_reset; so the two renderers write the same output
\* and have the same list stack after every sequence of events.  An event
\* that is not ListItem, ListEnd, EmptyLine or Newline leaves the list
\* state empty whether or not a ListEnd preceded it.
C18_PendingResetUnobservable ==
    [][ (last.result = "none" /\ last'.result # "none") =>
          \A ev \in {last'.event} :
             /\ \E o \in RenderOutcomes(FlipPending(Self), ev) :
                   /\ o.writer = writer'
                   /\ o.last = last'
                   /\ StripPending(o.st) = StripPending(SelfAfter)
             /\ should_reset_list(ev) => list_state' = ListStateDefault
      ]_vars

\* An ordered item numbered 2 behind the item numbered 1 with no ListEnd
\* between them: the list goes on while the flag was never set.
C18_Witness ==
    /\ OrderedItemDone
    /\ prev_item.present /\ prev_item.ordered
    /\ prev_item.indent = last.event.indent
    /\ ~prev_item.seps.ListEnd
    /\ prev_item.marker = Marker(1)
    /\ last.marker = Marker(2)
    /\ ~list_state.pending_reset

\* The events that add a row to the table buffer, and a call of any kind
\* that returned.
RowKinds == {"TableHeader", "TableRow"}
Returned == last.result = "none" /\ last'.result \in {"ok", "err"}

\* C21: the rows received before TableEnd stay in the buffer across every
\* other event.  A call on an event that is neither a row nor TableEnd
\* leaves the buffer as it was and writes what it writes in the call itself,
\* so before the table; a row is appended behind the rows already there;
\* and TableEnd that returns Ok has written the one table render_table
\* makes of all the rows of the buffer and has emptied it.
C21_RowsStayBuffered ==
    [][ Returned =>
          /\ last'.event.kind \notin RowKinds \cup {"TableEnd"}
                => /\ table_rows' = table_rows
                   /\ (last'.result = "ok"
                          /\ last'.event.kind \in WrittenAtOnce)
                       => writer'.written # <<>>
          /\ last'.event.kind \in RowKinds
                => /\ table_rows' = Append(table_rows, last'.event.cols)
                   /\ writer'.written = <<>>
          /\ (last'.event.kind = "TableEnd" /\ last'.result = "ok")
                => /\ table_rows' = <<>>
                   /\ writer'.written =
                          Written(render_table(table_rows, left_margin(Self),
                                               renderer_width))
      ]_vars

\* A text that arrived behind a table row and before TableEnd: it is
\* written, and the row is still in the buffer.
C21_Witness ==
    /\ last.event.kind = "Text"
    /\ last.result = "ok"
    /\ writer.written = <<SomeText>>
    /\ events = 2
    /\ table_rows = << << <<"a">>, <<"b", "b">> >> >>

\* The blockquote depth in force before a call, and the width and margin
\* that belong to it: 3 columns less for each level, but not less than
\* none, and one styled vertical bar and a blank for each level.
ActiveDepth == IF in_blockquote THEN blockquote_depth ELSE 0
DepthWidth == Max(renderer_width - 3 * ActiveDepth, 0)
DepthMargin ==
    Repeat(Apply(BlockquoteBorder, <<"box-v">>) \o <<" ">>, ActiveDepth)

\* The lines of an event that is rendered inside the margin.
MarginLines(ev) ==
    CASE ev.kind = "Heading" ->
            render_heading(ev.level, ev.content, DepthWidth, DepthMargin)
      [] ev.kind = "BlockquoteLine" ->
            LET wrapped == text_wrap(ev.text, DepthWidth, DepthMargin,
                                     DepthMargin)
            IN  IF wrapped = <<>> THEN <<DepthMargin>> ELSE wrapped
      [] ev.kind = "ListItem" ->
            render_list_item(ev.indent, ev.bullet, ev.content, DepthWidth,
                             DepthMargin, list_state).lines
      [] ev.kind = "CodeBlockLine" ->
            render_code_line(ev.line, current_language, DepthMargin,
                             DepthWidth)
      [] ev.kind = "HorizontalRule" ->
            <<DepthMargin \o Apply(HrStyle, Repeat(<<"box-h">>, DepthWidth))>>

\* C22: BlockquoteStart sets the flag and sets the depth to the depth of the
\* event, whatever the depth was; BlockquoteEnd clears the flag and sets the
\* depth to 0.  A heading, blockquote line, list item, code line or
\* horizontal rule is rendered with the width max(width - 3d, 0) and the
\* margin of d styled vertical bars, each with a blank, where d is the depth
\* when the blockquote is active and 0 when it is not.
C22_BlockquoteState ==
    [][ Returned =>
          \A ev \in {last'.event} :
             /\ ev.kind = "BlockquoteStart"
                   => in_blockquote' /\ blockquote_depth' = ev.depth
             /\ ev.kind = "BlockquoteEnd"
                   => ~in_blockquote' /\ blockquote_depth' = 0
             /\ (ev.kind \in {"Heading", "BlockquoteLine", "ListItem",
                              "CodeBlockLine", "HorizontalRule"}
                    /\ last'.result = "ok")
                   => writer'.written = Written(MarginLines(ev))
      ]_vars

\* A horizontal rule at depth 2 of a renderer of width 9: two bars and a
\* rule of 3 columns.
C22_Witness ==
    /\ renderer_width = 9
    /\ in_blockquote /\ blockquote_depth = 2
    /\ last.event.kind = "HorizontalRule"
    /\ last.result = "ok"
    /\ writer.written =
           << Apply(BlockquoteBorder, <<"box-v">>) \o <<" ">>
                  \o Apply(BlockquoteBorder, <<"box-v">>) \o <<" ">>
                  \o Apply(HrStyle, <<"box-h", "box-h", "box-h">>)
                  \o <<NL>> >>

\* C23: ThinkBlockStart that returns Ok has written one header line and left
\* the blockquote active at depth 1; ThinkBlockLine has written exactly one
\* line, the border, a blank and the styled text, and left the blockquote
\* state as it was; ThinkBlockEnd has written one line, the bottom border,
\* and left the blockquote inactive at depth 0, whatever the flag and the
\* depth were before the call.
C23_ThinkBlock ==
    [][ (Returned /\ last'.result = "ok") =>
          \A ev \in {last'.event} :
             /\ ev.kind = "ThinkBlockStart"
                   => /\ writer'.written =
                             Written(<<Apply(ThinkBorder,
                                 <<"box-tl", "box-h", " ", "t", "h", "i", "n",
                                   "k", "i", "n", "g", " ", "box-h">>)>>)
                      /\ in_blockquote' /\ blockquote_depth' = 1
             /\ ev.kind = "ThinkBlockLine"
                   => /\ writer'.written =
                             Written(<<Apply(ThinkBorder, <<"box-v">>)
                                 \o <<" ">> \o Apply(ThinkStyle, ev.text)>>)
                      /\ in_blockquote' = in_blockquote
                      /\ blockquote_depth' = blockquote_depth
             /\ ev.kind = "ThinkBlockEnd"
                   => /\ writer'.written =
                             Written(<<Apply(ThinkBorder, <<"box-bl">>)>>)
                      /\ ~in_blockquote' /\ blockquote_depth' = 0
      ]_vars

\* The third event of a stream, ThinkBlockEnd: the bottom border is written
\* and no blockquote is active.
C23_Witness ==
    /\ last.event.kind = "ThinkBlockEnd"
    /\ last.result = "ok"
    /\ events = 3
    /\ writer.written = <<Apply(ThinkBorder, <<"box-bl">>) \o <<NL>>>>
    /\ ~in_blockquote /\ blockquote_depth = 0
    /\ column = 0

\* C24: CodeBlockStart sets the language to the one of the event and empties
\* the code buffer; a CodeBlockLine that returns Ok has written the lines
\* render_code_line makes of it with the language, the margin and the width
\* in force at that call, and has added the line to the buffer;
\* CodeBlockEnd sets the language to none and empties the buffer.  None of
\* the three changes the table buffer or the blockquote flag and depth.
C24_CodeBlock ==
    [][ (Returned /\ last'.event.kind \in
             {"CodeBlockStart", "CodeBlockLine", "CodeBlockEnd"}) =>
          \A ev \in {last'.event} :
             /\ table_rows' = table_rows
             /\ in_blockquote' = in_blockquote
             /\ blockquote_depth' = blockquote_depth
             /\ ev.kind = "CodeBlockStart"
                   => /\ current_language' = ev.language
                      /\ code_buffer' = <<>>
                      /\ writer'.written = <<>>
             /\ ev.kind = "CodeBlockLine"
                   => /\ current_language' = current_language
                      /\ code_buffer' =
                             (IF code_buffer = <<>> THEN <<>>
                              ELSE Append(code_buffer, NL)) \o ev.line
                      /\ last'.result = "ok" =>
                             writer'.written =
                                 Written(render_code_line(ev.line,
                                     current_language, DepthMargin,
                                     DepthWidth))
             /\ ev.kind = "CodeBlockEnd"
                   => /\ current_language' = "none"
                      /\ code_buffer' = <<>>
                      /\ writer'.written = <<>>
      ]_vars

\* A code line of a block of language rs, inside a blockquote of depth 1
\* that began after the block: the line is written behind one bar.
C24_Witness ==
    /\ last.event.kind = "CodeBlockLine"
    /\ last.result = "ok"
    /\ events = 3
    /\ current_language = "rs"
    /\ in_blockquote /\ blockquote_depth = 1
    /\ code_buffer = <<" ", "x">>
    /\ writer.written =
           << Apply(BlockquoteBorder, <<"box-v">>) \o <<" ">>
                  \o highlight_line(<<" ", "x">>, "rs") \o RESET \o <<NL>> >>

\* The number of header-style sequences in line i of the table, and the
\* number of cells of the first row that are not empty.
HeaderStyles(i) == CountGlyph(call.lines[i], TableHeaderStyle)
HeaderCells ==
    Cardinality({i \in 1..Len(call.rows[1]) : call.rows[1][i] # <<>>})

RECURSIVE WordsFrom(_)
WordsFrom(i) ==
    IF i > Len(call.lines) THEN <<>> ELSE LineWords(i) \o WordsFrom(i + 1)

\* C26: for a width above 0, the lines of text_wrap hold the words of
\* split_text in input order, none lost and none twice; the first line
\* begins with the first prefix and every later line with the continuation
\* prefix, and behind its prefix a line is its words joined by single
\* spaces; a word behind the first of a line joined the line because the
\* line's visible length, one space and the word's visible length were
\* within the width less the visible width of the line's prefix, and the
\* first word of the following line did not fit in that way.
C26_GreedyPacking ==
    (WrapDone /\ call.width > 0) =>
        /\ WordsFrom(1) = split_text(call.text)
        /\ \A i \in 1..Len(call.lines) :
              /\ IsPrefix(LinePrefix(i), call.lines[i])
              /\ LineWords(i) # <<>>
              /\ LineContent(i) = Join(LineWords(i), <<" ">>)
              /\ \A k \in 2..Len(LineWords(i)) :
                    visible_length(Join(SubSeq(LineWords(i), 1, k - 1),
                                        <<" ">>))
                        + 1 + visible_length(LineWords(i)[k]) <= Available(i)
              /\ i < Len(call.lines) =>
                    visible_length(LineContent(i)) + 1
                        + visible_length(LineWords(i + 1)[1]) > Available(i)

\* "aa a" at width 3 with a first prefix of one blank and a continuation
\* prefix of two: the second word does not fit behind the first.
C26_Witness ==
    /\ WrapDone
    /\ call.text = <<"a", "a", " ", "a">>
    /\ call.width = 3
    /\ call.first_prefix = <<" ">>
    /\ call.next_prefix = <<" ", " ">>
    /\ call.lines = << <<" ", "a", "a">>, <<" ", " ", "a">> >>

-----------------------------------------------------------------------------
\* The positions from i on at which sep begins in s, one occurrence behind
\* the other.
RECURSIVE SepStarts(_, _, _)
SepStarts(s, sep, i) ==
    IF i + Len(sep) - 1 > Len(s) THEN <<>>
    ELSE IF s[i] = sep[1] /\ SubSeq(s, i, i + Len(sep) - 1) = sep
         THEN <<i>> \o SepStarts(s, sep, i + Len(sep))
    ELSE SepStarts(s, sep, i + 1)

\* The cells of content line i: what stands between its vertical borders.
LineCells(i) ==
    LET bar == Apply(TableBorder, <<"box-v">>)
        at == SepStarts(call.lines[i], bar, Len(call.margin) + 1)
    IN  [k \in 1..(Len(at) - 1) |->
            SubSeq(call.lines[i], at[k] + Len(bar), at[k + 1] - 1)]

\* The visible width of every line of the table: the margin, one border,
\* and each column with its two blanks and one border.
TableLineWidth ==
    visible_length(call.margin) + 1
        + SumSeq([i \in 1..Len(call.widths) |-> call.widths[i] + 3])

\* C30: all lines of render_table for one table, border lines and content
\* lines alike, have the visible width of the margin + 1 + the sum over the
\* columns of the final width + 3; on a content line the cell of a column
\* stands between two blanks and is, with the blanks that pad it, exactly
\* as wide as the column.
C30_Alignment ==
    TableDone =>
        \A i \in 1..Len(call.lines) :
            /\ visible_length(call.lines[i]) = TableLineWidth
            /\ LineGlyph(i) = "box-v" =>
                  /\ Len(LineCells(i)) = Len(call.widths)
                  /\ \A k \in 1..Len(call.widths) :
                        \E c \in {LineCells(i)[k]} :
                            /\ Len(c) >= 2
                            /\ c[1] = " " /\ c[Len(c)] = " "
                            /\ visible_length(c) = call.widths[k] + 2

\* A row of one long cell above a row of two cells, behind a blockquote
\* margin, shrunk to columns of five: each of the six lines is 19 columns
\* wide, and the second line of the wrapped cell is padded.
C30_Witness ==
    /\ TableDone
    /\ call.rows = << <<Repeat(<<"a">>, 7)>>, << <<"a">>, <<"a">> >> >>
    /\ call.margin = Apply(BlockquoteBorder, <<"box-v">>) \o <<" ">>
    /\ call.max_width = 16
    /\ call.widths = <<5, 5>>
    /\ Len(call.lines) = 6
    /\ TableLineWidth = 19
    /\ \A i \in 1..6 : visible_length(call.lines[i]) = 19
    /\ LineCells(3) = << <<" ", "a", "a">> \o Repeat(<<" ">>, 4), Repeat(<<" ">>, 7) >>

(* Properties of split_text (SplitSpec). *)

\* split_text has returned.
SplitDone == call.fn = "split_text" /\ call.done

\* The words one behind the other, and the text without the whitespace
\* that stands outside the escape sequences of split_text.
InSplitEscape(i) ==
    \E sp \in SplitEscapes(call.text) : sp[1] <= i /\ i <= sp[2]
RECURSIVE Unspaced(_)
Unspaced(i) ==
    IF i > Len(call.text) THEN <<>>
    ELSE (IF IsWhitespace(call.text[i]) /\ ~InSplitEscape(i) THEN <<>>
          ELSE <<call.text[i]>>) \o Unspaced(i + 1)

\* The span is whole in one of the words.
Intact(sp) ==
    \E k \in 1..Len(call.words) :
        \E off \in 0..(Len(call.words[k]) - (sp[2] - sp[1] + 1)) :
            SubSeq(call.words[k], off + 1, off + sp[2] - sp[1] + 1)
                = SubSeq(call.text, sp[1], sp[2])

\* C27: split_text drops whitespace outside escape sequences only and
\* keeps every other character in order, every escape sequence is whole in
\* one word, and the spans split_text takes as escape sequences are the
\* spans visible_length skips as escape sequences.
C27_Tokenization ==
    SplitDone =>
        /\ Concat(call.words) = Unspaced(1)
        /\ \A sp \in SplitEscapes(call.text) : Intact(sp)
        /\ SplitEscapes(call.text) = VisibleEscapes(call.text)

-----------------------------------------------------------------------------
(* Properties of wrap (CellSpec). *)

\* wrap has returned more than one chunk.
CellSplit == call.fn = "wrap" /\ call.done /\ Len(call.lines) > 1

IsSuffix(p, s) ==
    Len(p) <= Len(s) /\ SubSeq(s, Len(s) - Len(p) + 1, Len(s)) = p

\* The position in s of the last escape character at or before position i,
\* 0 when there is none.
RECURSIVE LastEscape(_, _)
LastEscape(s, i) ==
    IF i = 0 THEN 0 ELSE IF s[i] = ESC THEN i ELSE LastEscape(s, i - 1)

\* The first n characters of the cell end inside an escape sequence: behind
\* their last escape character there is no m.
InsideEscape(n) ==
    \E e \in {LastEscape(call.text, n)} :
        e > 0 /\ \A j \in e..n : call.text[j] # "m"

\* The style in force behind the first n characters of the cell: the last
\* escape sequence among them, unless that is the reset.  The sequences of
\* the cells are four characters long.
StyleSeqAt(n) ==
    LET e == LastEscape(call.text, n)
        s == IF e > 0 /\ e + 3 <= n THEN SubSeq(call.text, e, e + 3) ELSE <<>>
    IN  IF s = RESET THEN <<>> ELSE s

\* From chunk i on, the chunks are the rest of the cell behind its first n
\* characters: a chunk is the style in force where it begins (none for the
\* first chunk), a piece of the cell that does not end inside an escape
\* sequence, and, for every chunk but the last, a reset.
RECURSIVE ChunksFrom(_, _)
ChunksFrom(i, n) ==
    IF i > Len(call.lines) THEN n = Len(call.text)
    ELSE LET style == IF i = 1 THEN <<>> ELSE StyleSeqAt(n)
             reset == IF i < Len(call.lines) THEN RESET ELSE <<>>
             len == Len(call.lines[i]) - Len(style) - Len(reset)
         IN  /\ len > 0
             /\ n + len <= Len(call.text)
             /\ call.lines[i] =
                    style \o SubSeq(call.text, n + 1, n + len) \o reset
             /\ ~InsideEscape(n + len)
             /\ ChunksFrom(i + 1, n + len)

-----------------------------------------------------------------------------
(* Properties of the renderer on events with nothing to draw (EdgeSpec). *)

\* text_wrap has no line to return: the width is 0 or the text has no word.
NothingToWrap(text) == DepthWidth = 0 \/ split_text(text) = <<>>

\* The table buffer has no row, or rows of no cell only.
NothingToDraw ==
    \A r \in 1..Len(table_rows) : table_rows[r] = <<>>

\* The prefix of the item of the call: the margin, two blanks for each
\* level of indent, the styled marker and one blank.
ItemPrefix(ev, marker) ==
    DepthMargin \o Repeat(<<" ">>, 2 * ev.indent)
        \o Apply(IF ev.bullet.kind = "Ordered" THEN ListNumber
                 ELSE BulletStyle, marker)
        \o <<" ">>

\* C31: text_wrap returns no line, not one empty line, when the width is 0
\* or the text has no word; a blockquote line or list item in that case is
\* still written as exactly one line, its prefix alone.  render_table
\* returns no line, no border either, for no rows or rows of no cell only,
\* and TableEnd on such a buffer, the empty one included, writes nothing.
C31_EmptyResults ==
    [][ (Returned /\ last'.result = "ok") =>
          \A ev \in {last'.event} :
             /\ (ev.kind = "BlockquoteLine" /\ NothingToWrap(ev.text))
                   => /\ text_wrap(ev.text, DepthWidth, DepthMargin,
                                   DepthMargin) = <<>>
                      /\ writer'.written = <<Append(DepthMargin, NL)>>
             /\ (ev.kind = "ListItem" /\ NothingToWrap(ev.content))
                   => /\ text_wrap(ev.content, DepthWidth,
                                   ItemPrefix(ev, last'.marker),
                                   DepthMargin) = <<>>
                      /\ writer'.written =
                             <<Append(ItemPrefix(ev, last'.marker), NL)>>
             /\ (ev.kind = "TableEnd" /\ NothingToDraw)
                   => /\ render_table(table_rows, DepthMargin,
                                      renderer_width) = <<>>
                      /\ writer'.written = <<>>
                      /\ table_rows' = <<>>
      ]_vars

\* A blockquote line of one blank at depth 1 of a renderer of width 9: one
\* line, the bar and its blank.
C31_Witness ==
    /\ renderer_width = 9
    /\ in_blockquote /\ blockquote_depth = 1
    /\ last.event = [kind |-> "BlockquoteLine", text |-> <<" ">>]
    /\ last.result = "ok"
    /\ writer.written =
           << Apply(BlockquoteBorder, <<"box-v">>) \o <<" ", NL>> >>

====
